---- MODULE Spec2Model ----
(***************************************************************************)
(* GiftLib dashboard: the credential store (localStorage), the API client  *)
(* (axios instance with request/response interceptors), the session        *)
(* controller (AuthProvider), the login page and the gate between the      *)
(* login form and the main application (AppContent).                       *)
(***************************************************************************)
EXTENDS FiniteSets, Integers, Sequences, TLC

(* Bound: section requests that may be outstanding at the same time. *)
MaxInFlight == 1

(***************************************************************************)
(* Values                                                                  *)
(***************************************************************************)
(* localStorage.getItem(...) === null *)
NoItem == "<null>"
(* a request without an X-API-Key header *)
NoHeader == "<none>"
(* JavaScript null for object values (userInfo, parsed JSON) *)
Null == [null |-> TRUE]

(* API keys a user may hold, and what may be typed into the API-key field *)
Keys == {"k1", "k2"}
KeyInputs == {"", " "} \cup Keys

(* user profiles the backend may return (User / UserInfo) *)
Profiles ==
  { [user_id |-> "u1", email |-> "a@x.io", full_name |-> "Ann"],
    [user_id |-> "u2", email |-> "b@x.io", full_name |-> "Bob"] }

(* a localStorage item holding serialized structured data *)
NoJson == [kind |-> "none"]
BadJson == [kind |-> "garbage"]

(* JSON.stringify(value) written by storage.set *)
Stringify(value) == [kind |-> "json", value |-> value]

(* apiKey.trim() of the login form: the inputs made of whitespace only *)
Trim(s) == IF s = " " THEN "" ELSE s

(* JavaScript truthiness of a string-or-null value *)
Truthy(s) == s # NoItem /\ s # ""

(***************************************************************************)
(* Credential store                                                        *)
(***************************************************************************)
(* storage.get: null when the item is absent or JSON.parse throws *)
StorageGet(item) == IF item.kind = "json" THEN item.value ELSE Null

(***************************************************************************)
(* API client                                                              *)
(***************************************************************************)
(* operations that go through the configured axios instance `api` *)
ApiOps ==
  { "getUserProfile", "initiateGift", "bulkInitiateGifts", "getAllGifts",
    "getCampaignGifts", "updateGiftStatus", "getGiftStatus", "verifyGift",
    "downloadExcelTemplate", "uploadExcelFile", "getEmailConfig",
    "updateEmailConfig", "testEmailConfig", "getFulfillmentConfig",
    "updateFulfillmentConfig", "testFulfillmentConfig" }

(* operations that call the global axios object directly *)
BareOps == { "healthCheck", "createUser" }

(* operations the sections of the main application invoke *)
SectionOps == (ApiOps \ {"getUserProfile"}) \cup {"healthCheck"}

(* outcome of a request: success, or an AxiosError with its code and status *)
OkResponse == [ok |-> TRUE, code |-> "", status |-> 200]
Failures ==
  { [ok |-> FALSE, code |-> "ECONNABORTED", status |-> 0],
    [ok |-> FALSE, code |-> "ERR_NETWORK", status |-> 0],
    [ok |-> FALSE, code |-> "ERR_BAD_REQUEST", status |-> 400],
    [ok |-> FALSE, code |-> "ERR_BAD_REQUEST", status |-> 401],
    [ok |-> FALSE, code |-> "ERR_BAD_REQUEST", status |-> 403],
    [ok |-> FALSE, code |-> "ERR_BAD_REQUEST", status |-> 404],
    [ok |-> FALSE, code |-> "ERR_BAD_RESPONSE", status |-> 500],
    [ok |-> FALSE, code |-> "", status |-> 0] }
Responses == {OkResponse} \cup Failures

ErrorToast(msg) == [kind |-> "error", msg |-> msg]
SuccessToast(msg) == [kind |-> "success", msg |-> msg]

(* api.interceptors.request: the header attached from the store *)
RequestInterceptor_Never(storedKey) == NoHeader
RequestInterceptor(storedKey) ==
  IF Truthy(storedKey) THEN storedKey ELSE NoHeader

(* the header a request of operation op leaves with *)
HeaderOf(op, storedKey) ==
  IF op \in ApiOps THEN RequestInterceptor(storedKey) ELSE NoHeader

(* api.interceptors.response: the global notification of a failure *)
ResponseInterceptor_No401(resp) ==
  IF resp.ok THEN {}
  ELSE IF resp.code = "ECONNABORTED" THEN {ErrorToast("Request timed out")}
  ELSE IF resp.code = "ERR_NETWORK" THEN {ErrorToast("Connection failed")}
  ELSE IF resp.status = 403 THEN {ErrorToast("Forbidden")}
  ELSE IF resp.status >= 500 THEN {ErrorToast("Server error")}
  ELSE {}
ResponseInterceptor(resp) ==
  IF resp.ok THEN {}
  ELSE IF resp.code = "ECONNABORTED" THEN {ErrorToast("Request timed out")}
  ELSE IF resp.code = "ERR_NETWORK" THEN {ErrorToast("Connection failed")}
  ELSE IF resp.status = 401 THEN {ErrorToast("Unauthorized")}
  ELSE IF resp.status = 403 THEN {ErrorToast("Forbidden")}
  ELSE IF resp.status >= 500 THEN {ErrorToast("Server error")}
  ELSE {}

(* notifications the API client raises for the response to operation op *)
ClientToasts_Always(op, resp) == ResponseInterceptor(resp)
ClientToasts(op, resp) ==
  IF op \in ApiOps THEN ResponseInterceptor(resp) ELSE {}

(* handleError: the Error thrown to the caller; it has no `response` *)
HandleError(resp) == [ok |-> FALSE, code |-> "", status |-> 0]

(***************************************************************************)
(* State                                                                   *)
(***************************************************************************)
VARIABLES
  storageAvailable, \* localStorage can be accessed
  lsKey,            \* localStorage item giftlib_api_key
  lsUser,           \* localStorage item giftlib_user_info
  isLoggedIn,       \* AuthProvider state
  userInfo,         \* AuthProvider state
  apiKey,           \* AuthProvider state
  isLoading,        \* AuthProvider state
  initPc,           \* position of initializeAuth: start, fetching, done
  storedApiKey,     \* local of initializeAuth
  storedUserInfo,   \* local of initializeAuth
  loginPc,          \* LoginPage request outstanding: idle, login, createUser
  loginIsLoading,   \* LoginPage state isLoading
  loginApiKey,      \* LoginPage state apiKey (the form field)
  showCreateUser,   \* LoginPage state
  inflight,         \* requests of the sections awaiting their response
  sent,             \* requests dispatched by the last step
  lastResp,         \* response handled by the last step
  toasts,           \* notifications raised by the last step
  view,             \* what AppContent renders
  call,             \* one call of an apiService method, from dispatch to outcome
  section,          \* MainApp state activeSection
  vs,               \* state of the section component that is mounted
  pending,          \* requests of the mounted section awaiting their response
  step,             \* last handler run: its name, requests sent, notifications
  timers            \* interval timers of the window: how many were made, and
                    \* the active ones

authVars == <<isLoggedIn, userInfo, apiKey, isLoading>>
storeVars == <<storageAvailable, lsKey, lsUser>>
initVars == <<initPc, storedApiKey, storedUserInfo>>
loginVars == <<loginPc, loginIsLoading, loginApiKey, showCreateUser>>
vars == <<storageAvailable, lsKey, lsUser, isLoggedIn, userInfo, apiKey,
          isLoading, initPc, storedApiKey, storedUserInfo, loginPc,
          loginIsLoading, loginApiKey, showCreateUser, inflight, sent,
          lastResp, toasts, view, call, section, vs, pending, step,
          timers>>

(* the session, the store and the login form: everything but the parts that
   are studied on their own below *)
appVars == <<storeVars, authVars, initVars, loginVars, inflight, sent,
             lastResp, toasts, view>>
viewVars == <<section, vs, pending, step, timers>>
partVars == <<call, viewVars>>

NoCall == [pc |-> "idle"]
(* the form InitiateGift is mounted with, and resets to *)
InitialFormData ==
  [fullName |-> "", email |-> <<>>, phone |-> "", line1 |-> "", line2 |-> "",
   city |-> "", state |-> "", zip |-> "", country |-> "USA",
   type |-> "thank_you_card", templateId |-> "template1", message |-> "",
   deliveryDate |-> "", campaignId |-> "", orderSource |-> "Web Interface"]

(* MainApp shows the section `initiate` first *)
ViewsIdle ==
  /\ section = "initiate"
  /\ vs = [isLoading |-> FALSE, formData |-> InitialFormData]
  /\ pending = {}
  /\ step = [act |-> "none", sent |-> {}, toasts |-> {}]
  /\ timers = [made |-> 0, active |-> {}]
PartsIdle == call = NoCall /\ ViewsIdle

(* lastResp: who awaited the response, whether the request went through the
   interceptors of `api`, the header it carried, the outcome and the body *)
NoResp == [origin |-> "none", intercepted |-> FALSE, hdr |-> NoHeader,
           resp |-> OkResponse, body |-> Null]
Request(op, storedKey) == [op |-> op, hdr |-> HeaderOf(op, storedKey)]
Handled(origin, req, resp, body) ==
  [origin |-> origin, intercepted |-> req.op \in ApiOps, hdr |-> req.hdr,
   resp |-> resp, body |-> body]

(* AppContent: the component shown for the given session flags *)
AppContent_NoSpinner(loggedIn, loading) ==
  IF loggedIn THEN "MainApp" ELSE "LoginPage"
AppContent(loggedIn, loading) ==
  IF loading THEN "LoadingSpinner"
  ELSE IF loggedIn THEN "MainApp" ELSE "LoginPage"

(* every state update is followed by a render of AppContent *)
Render == view' = AppContent(isLoggedIn', isLoading')

(* the session state of the Session Controller *)
SessionState ==
  IF isLoading THEN "Loading"
  ELSE IF isLoggedIn THEN "Authenticated" ELSE "Unauthenticated"

StoreContents ==
  { <<TRUE, k, u>> : k \in {NoItem} \cup Keys,
                     u \in {NoJson, BadJson} \cup {Stringify(p) : p \in Profiles} }
    \cup { <<FALSE, NoItem, NoJson>> }

Init ==
  /\ \E c \in StoreContents :
       /\ storageAvailable = c[1]
       /\ lsKey = c[2]
       /\ lsUser = c[3]
  /\ isLoggedIn = FALSE
  /\ userInfo = Null
  /\ apiKey = ""
  /\ isLoading = TRUE
  /\ initPc = "start"
  /\ storedApiKey = NoItem
  /\ storedUserInfo = Null
  /\ loginPc = "idle"
  /\ loginIsLoading = FALSE
  /\ loginApiKey = ""
  /\ showCreateUser = FALSE
  /\ inflight = {}
  /\ sent = {}
  /\ lastResp = NoResp
  /\ toasts = {}
  /\ view = AppContent(FALSE, TRUE)
  /\ PartsIdle

(***************************************************************************)
(* AuthProvider                                                            *)
(***************************************************************************)
(* the condition under which initializeAuth validates the stored key *)
ShouldValidate_KeyOnly(key, user) == Truthy(key)
ShouldValidate(key, user) == Truthy(key) /\ user # Null

(* the finally block of initializeAuth *)
InitFinally_Missing == isLoading' = isLoading
InitFinally == isLoading' = FALSE

(* initializeAuth up to its await (or to its end when nothing is awaited) *)
InitializeAuth ==
  /\ initPc = "start"
  /\ IF ~storageAvailable
     THEN \* apiService.getApiKey throws; outer catch, then finally
          /\ InitFinally
          /\ initPc' = "done"
          /\ sent' = {}
          /\ UNCHANGED <<storedApiKey, storedUserInfo>>
     ELSE /\ storedApiKey' = lsKey
          /\ storedUserInfo' = StorageGet(lsUser)
          /\ IF ShouldValidate(lsKey, StorageGet(lsUser))
             THEN /\ sent' = {Request("getUserProfile", lsKey)}
                  /\ initPc' = "fetching"
                  /\ isLoading' = isLoading
             ELSE /\ sent' = {}
                  /\ initPc' = "done"
                  /\ InitFinally
  /\ lastResp' = NoResp
  /\ toasts' = {}
  /\ UNCHANGED <<storeVars, isLoggedIn, userInfo, apiKey, loginVars, inflight>>
  /\ Render

(* the failure branch of initializeAuth: what it leaves in the store *)
InitFailureStore_KeepUser == lsKey' = NoItem /\ lsUser' = lsUser
InitFailureStore == lsKey' = NoItem /\ lsUser' = NoJson

(* initializeAuth resumed by the outcome of getUserProfile *)
InitProfileResponse(resp, profile) ==
  /\ initPc = "fetching"
  /\ lastResp' = Handled("init", Request("getUserProfile", storedApiKey), resp,
                         IF resp.ok THEN profile ELSE Null)
  /\ IF resp.ok
     THEN /\ apiKey' = storedApiKey
          /\ userInfo' = storedUserInfo
          /\ isLoggedIn' = TRUE
          /\ toasts' = {}
          /\ UNCHANGED <<lsKey, lsUser>>
     ELSE /\ InitFailureStore
          /\ toasts' = ResponseInterceptor(resp)
                         \cup {ErrorToast("Session expired")}
          /\ UNCHANGED <<apiKey, userInfo, isLoggedIn>>
  /\ InitFinally
  /\ initPc' = "done"
  /\ sent' = {}
  /\ UNCHANGED <<storageAvailable, storedApiKey, storedUserInfo, loginVars,
                 inflight>>
  /\ Render

(* login(newApiKey, newUserInfo) *)
Login_NoPersistedProfile(newApiKey, newUserInfo) ==
  /\ apiKey' = newApiKey
  /\ userInfo' = newUserInfo
  /\ isLoggedIn' = TRUE
  /\ lsKey' = newApiKey
  /\ lsUser' = lsUser
Login(newApiKey, newUserInfo) ==
  /\ apiKey' = newApiKey
  /\ userInfo' = newUserInfo
  /\ isLoggedIn' = TRUE
  /\ lsKey' = newApiKey
  /\ lsUser' = Stringify(newUserInfo)

WelcomeToast(newUserInfo) ==
  [kind |-> "success", msg |-> "Welcome back", name |-> newUserInfo.full_name]

(* what logout does to the AuthProvider state and the store *)
LogoutEffect_KeepStore ==
  /\ apiKey' = ""
  /\ userInfo' = Null
  /\ isLoggedIn' = FALSE
  /\ isLoading' = isLoading
  /\ UNCHANGED <<lsKey, lsUser>>
LogoutEffect_Reload ==
  /\ apiKey' = ""
  /\ userInfo' = Null
  /\ isLoggedIn' = FALSE
  /\ isLoading' = TRUE
  /\ lsKey' = NoItem
  /\ lsUser' = NoJson
LogoutEffect ==
  /\ apiKey' = ""
  /\ userInfo' = Null
  /\ isLoggedIn' = FALSE
  /\ isLoading' = isLoading
  /\ lsKey' = NoItem
  /\ lsUser' = NoJson

(* the Logout button of MainApp (and of the API status section) *)
Logout ==
  /\ view = "MainApp"
  /\ LogoutEffect
  /\ toasts' = {SuccessToast("Logged out successfully")}
  /\ sent' = {}
  /\ lastResp' = NoResp
  \* LoginPage is mounted afresh
  /\ loginPc' = "idle"
  /\ loginIsLoading' = FALSE
  /\ loginApiKey' = ""
  /\ showCreateUser' = FALSE
  /\ UNCHANGED <<storageAvailable, initVars, inflight>>
  /\ Render

(***************************************************************************)
(* LoginPage                                                               *)
(***************************************************************************)
(* onChange of the API-key field (disabled while a request is outstanding) *)
TypeApiKey(k) ==
  /\ view = "LoginPage"
  /\ ~showCreateUser
  /\ ~loginIsLoading
  /\ loginApiKey' = k
  /\ sent' = {}
  /\ lastResp' = NoResp
  /\ toasts' = {}
  /\ UNCHANGED <<storeVars, authVars, initVars, loginPc, loginIsLoading,
                 showCreateUser, inflight>>
  /\ Render

(* the two buttons that switch between the login and the create-user form *)
SetShowCreateUser(b) ==
  /\ view = "LoginPage"
  /\ ~loginIsLoading
  /\ showCreateUser = ~b
  /\ showCreateUser' = b
  /\ sent' = {}
  /\ lastResp' = NoResp
  /\ toasts' = {}
  /\ UNCHANGED <<storeVars, authVars, initVars, loginPc, loginIsLoading,
                 loginApiKey, inflight>>
  /\ Render

(* handleLogin up to its await *)
HandleLogin ==
  /\ view = "LoginPage"
  /\ ~showCreateUser
  /\ ~loginIsLoading
  /\ IF Trim(loginApiKey) = ""
     THEN /\ toasts' = {ErrorToast("Please enter your API key")}
          /\ sent' = {}
          /\ UNCHANGED <<lsKey, loginPc, loginIsLoading>>
     ELSE IF ~storageAvailable
     THEN \* setApiKey throws, removeApiKey in the catch throws, finally runs
          /\ toasts' = {}
          /\ sent' = {}
          /\ UNCHANGED <<lsKey, loginPc, loginIsLoading>>
     ELSE /\ lsKey' = loginApiKey
          /\ sent' = {Request("getUserProfile", loginApiKey)}
          /\ loginPc' = "login"
          /\ loginIsLoading' = TRUE
          /\ toasts' = {}
  /\ lastResp' = NoResp
  /\ UNCHANGED <<storageAvailable, lsUser, authVars, initVars, loginApiKey,
                 showCreateUser, inflight>>
  /\ Render

(* the notification of the catch block of handleLogin *)
LoginErrorToast(error) ==
  IF error.status = 401 THEN ErrorToast("Invalid API key")
  ELSE IF error.status = 404 THEN ErrorToast("User not found")
  ELSE ErrorToast("Login failed")

(* the catch block of handleLogin: what it leaves in the store *)
LoginFailureStore_KeepKey == UNCHANGED <<lsKey, lsUser>>
LoginFailureStore == lsKey' = NoItem /\ lsUser' = lsUser

(* handleLogin resumed by the outcome of getUserProfile *)
LoginProfileResponse(resp, profile) ==
  /\ loginPc = "login"
  /\ lastResp' = Handled("login", Request("getUserProfile", loginApiKey), resp,
                         IF resp.ok THEN profile ELSE Null)
  /\ IF resp.ok
     THEN /\ Login(loginApiKey, profile)
          /\ toasts' = {WelcomeToast(profile)}
          \* LoginPage is unmounted
          /\ loginApiKey' = ""
     ELSE /\ LoginFailureStore
          /\ toasts' = ResponseInterceptor(resp)
                         \cup {LoginErrorToast(HandleError(resp))}
          /\ UNCHANGED <<apiKey, userInfo, isLoggedIn, loginApiKey>>
  /\ loginPc' = "idle"
  /\ loginIsLoading' = FALSE
  /\ sent' = {}
  /\ UNCHANGED <<storageAvailable, isLoading, initVars, showCreateUser,
                 inflight>>
  /\ Render

(* isValidEmail over a string given as its sequence of characters *)
IsValidEmail(e) ==
  /\ \A i \in 1..Len(e) : e[i] # " "
  /\ \E i \in 2..Len(e) :
       /\ e[i] = "@"
       /\ \A j \in 1..Len(e) : e[j] = "@" => j = i
       /\ \E j \in (i + 2)..(Len(e) - 1) : e[j] = "."

(* s.trim() === '' for a string given as its sequence of characters *)
IsBlank(e) == \A i \in 1..Len(e) : e[i] = " "

EmailInputs ==
  { <<>>, <<" ">>, <<"a", "@", "b">>, <<"a", "@", "b", ".", "c">> }

ValidCreateUserForm ==
  [fullName |-> "Ann", email |-> <<"a", "@", "b", ".", "c">>,
   line1 |-> "1 Main St", city |-> "Pune", state |-> "MH", zip |-> "411001"]

(* the valid form, and the forms with one field left blank or malformed *)
CreateUserForms ==
  {ValidCreateUserForm}
    \cup {[ValidCreateUserForm EXCEPT !.email = e] : e \in EmailInputs}
    \cup {[ValidCreateUserForm EXCEPT !.fullName = ""],
          [ValidCreateUserForm EXCEPT !.line1 = " "],
          [ValidCreateUserForm EXCEPT !.city = ""],
          [ValidCreateUserForm EXCEPT !.state = " "],
          [ValidCreateUserForm EXCEPT !.zip = ""]}

(* the validation at the head of handleCreateUser: the error, or none *)
CreateUserValidation(form) ==
  IF Trim(form.fullName) = "" THEN {ErrorToast("Full name is required")}
  ELSE IF IsBlank(form.email) \/ ~IsValidEmail(form.email)
    THEN {ErrorToast("Please enter a valid email address")}
  ELSE IF Trim(form.line1) = "" THEN {ErrorToast("Address line 1 is required")}
  ELSE IF Trim(form.city) = "" THEN {ErrorToast("City is required")}
  ELSE IF Trim(form.state) = "" THEN {ErrorToast("State is required")}
  ELSE IF Trim(form.zip) = "" THEN {ErrorToast("ZIP code is required")}
  ELSE {}

(* handleCreateUser up to its await *)
HandleCreateUser(form) ==
  /\ view = "LoginPage"
  /\ showCreateUser
  /\ ~loginIsLoading
  /\ IF CreateUserValidation(form) # {}
     THEN /\ toasts' = CreateUserValidation(form)
          /\ sent' = {}
          /\ UNCHANGED <<loginPc, loginIsLoading>>
     ELSE /\ toasts' = {}
          /\ sent' = {Request("createUser", lsKey)}
          /\ loginPc' = "createUser"
          /\ loginIsLoading' = TRUE
  /\ lastResp' = NoResp
  /\ UNCHANGED <<storeVars, authVars, initVars, loginApiKey, showCreateUser,
                 inflight>>
  /\ Render

(* the notification of the catch block of handleCreateUser *)
CreateUserErrorToast(error) ==
  IF error.status = 400 THEN ErrorToast("Invalid user data")
  ELSE IF error.status = 409 THEN ErrorToast("User with this email already exists")
  ELSE ErrorToast("Failed to create user")

(* handleCreateUser resumed by the outcome of createUser *)
CreateUserResponse(resp, newKey) ==
  /\ loginPc = "createUser"
  /\ lastResp' = Handled("createUser", Request("createUser", lsKey), resp, Null)
  /\ IF resp.ok
     THEN /\ toasts' = {SuccessToast("User created successfully")}
                \cup (IF Truthy(newKey)
                      THEN {SuccessToast("Your API key")} ELSE {})
          /\ loginApiKey' = IF Truthy(newKey) THEN newKey ELSE loginApiKey
          /\ showCreateUser' = FALSE
     ELSE /\ toasts' = ClientToasts("createUser", resp)
                         \cup {CreateUserErrorToast(HandleError(resp))}
          /\ UNCHANGED <<loginApiKey, showCreateUser>>
  /\ loginPc' = "idle"
  /\ loginIsLoading' = FALSE
  /\ sent' = {}
  /\ UNCHANGED <<storeVars, authVars, initVars, inflight>>
  /\ Render

(***************************************************************************)
(* Sections of the main application                                        *)
(***************************************************************************)
(* a section calls an API client operation *)
SectionDispatch(op) ==
  /\ view = "MainApp"
  /\ Cardinality(inflight) < MaxInFlight
  /\ Request(op, lsKey) \notin inflight
  /\ inflight' = inflight \cup {Request(op, lsKey)}
  /\ sent' = {Request(op, lsKey)}
  /\ lastResp' = NoResp
  /\ toasts' = {}
  /\ UNCHANGED <<storeVars, authVars, initVars, loginVars>>
  /\ Render

(* the response to a section's request arrives; requests are never cancelled *)
SectionResponse_Clears401(req, resp) ==
  /\ req \in inflight
  /\ inflight' = inflight \ {req}
  /\ lastResp' = Handled("section", req, resp, Null)
  /\ toasts' = ClientToasts(req.op, resp)
  /\ sent' = {}
  /\ lsKey' = IF resp.status = 401 THEN NoItem ELSE lsKey
  /\ UNCHANGED <<storageAvailable, lsUser, authVars, initVars, loginVars>>
  /\ Render
SectionResponse(req, resp) ==
  /\ req \in inflight
  /\ inflight' = inflight \ {req}
  /\ lastResp' = Handled("section", req, resp, Null)
  /\ toasts' = ClientToasts(req.op, resp)
  /\ sent' = {}
  /\ UNCHANGED <<storeVars, authVars, initVars, loginVars>>
  /\ Render

(***************************************************************************)
(* Specification                                                           *)
(***************************************************************************)
InitResponse == \E resp \in Responses, p \in Profiles : InitProfileResponse(resp, p)

(* a step of the session, the store or the login form: the sections and the
   call studied on their own stand still *)
InApp(A) == A /\ UNCHANGED partVars

(* a step of the call: the rest of the application stands still *)
InClient(A) == A /\ UNCHANGED <<appVars, viewVars>>

(* a step of the mounted section: the rest of the application stands still;
   only the status section makes interval timers *)
InViews(A) == A /\ UNCHANGED <<appVars, call, timers>>
InStatus(A) == A /\ UNCHANGED <<appVars, call>>

Next ==
  \/ InApp(InitializeAuth)
  \/ InApp(InitResponse)
  \/ InApp(Logout)
  \/ InApp(\E k \in KeyInputs : TypeApiKey(k))
  \/ InApp(\E b \in BOOLEAN : SetShowCreateUser(b))
  \/ InApp(HandleLogin)
  \/ InApp(\E resp \in Responses, p \in Profiles : LoginProfileResponse(resp, p))
  \/ InApp(\E form \in CreateUserForms : HandleCreateUser(form))
  \/ InApp(\E resp \in Responses, k \in {NoItem} \cup Keys : CreateUserResponse(resp, k))
  \/ InApp(\E op \in SectionOps : SectionDispatch(op))
  \/ InApp(\E req \in inflight, resp \in Responses : SectionResponse(req, resp))

Spec == Init /\ [][Next]_vars

(* every profile request is eventually answered (the client times out after
   30 seconds) and the mount effect runs *)
FairSpec ==
  Spec /\ WF_vars(InApp(InitializeAuth)) /\ WF_vars(InApp(InitResponse))

TypeOK ==
  /\ storageAvailable \in BOOLEAN
  /\ lsKey \in {NoItem} \cup Keys \cup {" "}
  /\ isLoggedIn \in BOOLEAN
  /\ isLoading \in BOOLEAN
  /\ userInfo \in {Null} \cup Profiles
  /\ apiKey \in {""} \cup Keys
  /\ initPc \in {"start", "fetching", "done"}
  /\ loginPc \in {"idle", "login", "createUser"}
  /\ view \in {"LoadingSpinner", "MainApp", "LoginPage"}
  /\ Cardinality(inflight) <= MaxInFlight

(***************************************************************************)
(* API client: one call from dispatch to outcome                           *)
(***************************************************************************)
(* an AxiosError as handleError sees it: code and response status as above,
   response.data.detail, response.data.message and error.message, each of
   them "" when absent (absent and empty are both falsy) *)
AxiosErrors ==
  { e \in [ok : {FALSE},
           code : {"ECONNABORTED", "ERR_NETWORK", "ERR_BAD_REQUEST",
                   "ERR_BAD_RESPONSE", ""},
           status : {0, 400, 401, 403, 404, 500, 503},
           detail : {"", "detail text"},
           message : {"", "message text"},
           errmsg : {"", "transport text"}] :
      /\ e.code \in {"ECONNABORTED", "ERR_NETWORK", ""} <=> e.status = 0
      /\ e.code = "ERR_BAD_REQUEST" <=> e.status \in 400..499
      /\ e.code = "ERR_BAD_RESPONSE" <=> e.status >= 500
      /\ e.status = 0 => e.detail = "" /\ e.message = "" }

GenericFallback == "An unexpected error occurred"

(* handleError: the message of the Error it throws *)
ErrorMessage_MessageFirst(e) ==
  IF e.message # "" THEN e.message
  ELSE IF e.detail # "" THEN e.detail
  ELSE IF e.errmsg # "" THEN e.errmsg
  ELSE GenericFallback
ErrorMessage(e) ==
  IF e.detail # "" THEN e.detail
  ELSE IF e.message # "" THEN e.message
  ELSE IF e.errmsg # "" THEN e.errmsg
  ELSE GenericFallback

(* what the catch block of the caller receives: new Error(message).
   The Error has no `response`: a caller reading error.response?.status,
   error.response.data?.detail or error.response?.data?.message finds none *)
Thrown(e) ==
  [message |-> ErrorMessage(e), status |-> HandleError(e).status,
   detail |-> "", dataMessage |-> ""]

(* a GiftResponse of the backend: a flat field that is absent is Undefined,
   a nested object that is absent is Null *)
Undefined == "<undefined>"
MaxWireGifts == 2
WireData ==
  { [id |-> "g1", name |-> "Ann", email |-> "ann@x.io", type |-> "card",
     campaign |-> "c1", verified |-> FALSE, created |-> 1,
     updated |-> 1],
    [id |-> "g2", name |-> "Bob", email |-> "bob@x.io", type |-> "mug",
     campaign |-> "c2", verified |-> TRUE, created |-> 1,
     updated |-> 2] }
FlatOnly(d) ==
  [gift_id |-> d.id, status |-> "pending", recipient_name |-> d.name,
   recipient_email |-> d.email, gift_type |-> d.type,
   campaign_id |-> d.campaign, verified |-> d.verified,
   created_at |-> d.created, updated_at |-> d.updated,
   recipient |-> Null, gift |-> Null,
   meta |-> Null]
NestedOnly(d) ==
  [gift_id |-> d.id, status |-> "pending", recipient_name |-> Undefined,
   recipient_email |-> Undefined, gift_type |-> Undefined,
   campaign_id |-> Undefined, verified |-> d.verified,
   created_at |-> d.created, updated_at |-> d.updated,
   recipient |-> [full_name |-> d.name, email |-> d.email],
   gift |-> [type |-> d.type], meta |-> [campaign_id |-> d.campaign]]
BothShapes(d) ==
  [FlatOnly(d) EXCEPT !.recipient = NestedOnly(d).recipient,
                      !.gift = NestedOnly(d).gift,
                      !.meta = NestedOnly(d).meta]
GiftResponses ==
  UNION { {FlatOnly(d), NestedOnly(d), BothShapes(d)} : d \in WireData }

(* JavaScript a || b on strings *)
OrElse(a, b) == IF a = Undefined \/ a = "" THEN b ELSE a

(* transformGiftResponse *)
transformGiftResponse(giftResponse) ==
  [gift_id |-> giftResponse.gift_id,
   status |-> giftResponse.status,
   recipient_name |-> giftResponse.recipient_name,
   recipient_email |-> giftResponse.recipient_email,
   gift_type |-> giftResponse.gift_type,
   campaign_id |-> giftResponse.campaign_id,
   verified |-> giftResponse.verified,
   created_at |-> giftResponse.created_at,
   updated_at |-> giftResponse.updated_at,
   recipient |->
     IF giftResponse.recipient # Null THEN giftResponse.recipient
     ELSE [full_name |-> OrElse(giftResponse.recipient_name, ""),
           email |-> OrElse(giftResponse.recipient_email, "")],
   gift |->
     IF giftResponse.gift # Null THEN giftResponse.gift
     ELSE [type |-> OrElse(giftResponse.gift_type, "")],
   meta |->
     IF giftResponse.meta # Null THEN giftResponse.meta
     ELSE [campaign_id |-> OrElse(giftResponse.campaign_id, "")]]

(* the operations that return a list of gifts *)
GiftListOps == {"getAllGifts", "getCampaignGifts"}

(* response bodies: data.gifts of a gift-list operation is a list of
   GiftResponse or absent; other operations return their data *)
GiftLists ==
  UNION { [1..n -> GiftResponses] : n \in 0..MaxWireGifts }
Bodies(op) ==
  IF op \in GiftListOps
  THEN { [success |-> TRUE, gifts |-> l] : l \in GiftLists }
         \cup { [success |-> TRUE] }
  ELSE { [success |-> TRUE] }

(* what the operation returns on success *)
Returned(op, data) ==
  IF op \in GiftListOps
  THEN [success |-> data.success,
        gifts |-> IF "gifts" \notin DOMAIN data THEN <<>>
                  ELSE [i \in 1..Len(data.gifts) |->
                          transformGiftResponse(data.gifts[i])]]
  ELSE data

ClientDispatch(op) ==
  /\ call.pc # "pending"
  /\ call' = [pc |-> "pending", op |-> op]

ClientFail(e) ==
  /\ call.pc = "pending"
  /\ call' = [pc |-> "thrown", op |-> call.op, err |-> e,
              thrown |-> Thrown(e), toasts |-> ClientToasts(call.op, e)]

ClientReturn(data) ==
  /\ call.pc = "pending"
  /\ data \in Bodies(call.op)
  /\ call' = [pc |-> "returned", op |-> call.op, data |-> data,
              result |-> Returned(call.op, data), toasts |-> {}]

(* the application as it stands once a session is restored *)
SignedIn ==
  LET p == CHOOSE q \in Profiles : TRUE IN
  /\ storageAvailable = TRUE
  /\ lsKey = "k1"
  /\ lsUser = Stringify(p)
  /\ isLoggedIn = TRUE
  /\ userInfo = p
  /\ apiKey = "k1"
  /\ isLoading = FALSE
  /\ initPc = "done"
  /\ storedApiKey = "k1"
  /\ storedUserInfo = p
  /\ loginPc = "idle"
  /\ loginIsLoading = FALSE
  /\ loginApiKey = ""
  /\ showCreateUser = FALSE
  /\ inflight = {}
  /\ sent = {}
  /\ lastResp = NoResp
  /\ toasts = {}
  /\ view = AppContent(TRUE, FALSE)

InitClient == SignedIn /\ call = NoCall /\ ViewsIdle

NextClient ==
  \/ InClient(\E op \in ApiOps \cup BareOps : ClientDispatch(op))
  \/ InClient(\E e \in AxiosErrors : ClientFail(e))
  \/ InClient(\E op \in ApiOps \cup BareOps : \E data \in Bodies(op) : ClientReturn(data))

SpecClient == InitClient /\ [][NextClient]_vars

(***************************************************************************)
(* Sections of the main application                                        *)
(***************************************************************************)
(* failures a section's request can end with *)
ViewErrors ==
  { e \in AxiosErrors : e.message = "" /\ e.errmsg = "transport text" }

(* the state variables of a view, other than its in-progress flag, that a
   handler has changed between the view states old and new *)
Touched(old, new, flag) ==
  { f \in DOMAIN old \ {flag} : old[f] # new[f] }

(* a handler that sends request r (or none) and raises the notifications t;
   the request of a mutating action records in `touched` the variables its
   handler changed before sending it *)
Ran(act, sentReqs, t) == [act |-> act, sent |-> sentReqs, toasts |-> t]
(* the handling of the response to request r; err is the AxiosError of a
   failed request *)
Answered(r, ok, err, t) ==
  [act |-> r.act, sent |-> {}, toasts |-> t, answered |-> r, ok |-> ok,
   err |-> err]

(* InitiateGift *)
(* updateFormData(path, value), the onChange of every field of the form *)
updateFormData(path, value) ==
  /\ section = "initiate" /\ ~vs.isLoading
  /\ vs' = [vs EXCEPT !.formData[path] = value]
  /\ step' = Ran("updateFormData", {}, {})
  /\ UNCHANGED <<section, pending>>

(* validateForm: the error it raises, or none *)
validateForm(formData) ==
  IF Trim(formData.fullName) = ""
  THEN {ErrorToast("Recipient full name is required")}
  ELSE IF IsBlank(formData.email) \/ ~IsValidEmail(formData.email)
  THEN {ErrorToast("Please enter a valid email address")}
  ELSE IF Trim(formData.line1) = "" THEN {ErrorToast("Address line 1 is required")}
  ELSE IF Trim(formData.city) = "" THEN {ErrorToast("City is required")}
  ELSE IF Trim(formData.state) = "" THEN {ErrorToast("State is required")}
  ELSE IF Trim(formData.zip) = "" THEN {ErrorToast("ZIP code is required")}
  ELSE IF Trim(formData.message) = "" THEN {ErrorToast("Gift message is required")}
  ELSE {}

(* handleSubmit up to its await *)
InitiateHandleSubmit ==
  /\ section = "initiate" /\ ~vs.isLoading
  /\ IF validateForm(vs.formData) # {}
     THEN /\ step' = Ran("InitiateGift.handleSubmit", {},
                         validateForm(vs.formData))
          /\ UNCHANGED <<vs, pending>>
     ELSE LET r == [op |-> "initiateGift",
                    act |-> "InitiateGift.handleSubmit",
                    data |-> vs.formData]
          IN /\ vs' = [vs EXCEPT !.isLoading = TRUE]
             /\ pending' = pending \cup {r}
             /\ step' = Ran("InitiateGift.handleSubmit", {r}, {})
  /\ UNCHANGED section

(* the rest of handleSubmit, after the await *)
InitiateAnswered_KeepsForm(r, resp) ==
  /\ section = "initiate" /\ r \in pending /\ r.op = "initiateGift"
  /\ vs' = [vs EXCEPT !.isLoading = FALSE]
  /\ step' = Answered(r, resp.ok, resp, {})
  /\ pending' = pending \ {r}
  /\ UNCHANGED section
InitiateAnswered(r, resp) ==
  /\ section = "initiate" /\ r \in pending /\ r.op = "initiateGift"
  /\ IF resp.ok
     THEN /\ vs' = [isLoading |-> FALSE,
                    formData |->
                      [fullName |-> "", email |-> <<>>, phone |-> "",
                       line1 |-> "", line2 |-> "", city |-> "", state |-> "",
                       zip |-> "", country |-> "USA",
                       type |-> "thank_you_card", templateId |-> "template1",
                       message |-> "", deliveryDate |-> "", campaignId |-> "",
                       orderSource |-> "Web Interface"]]
          /\ step' = Answered(r, TRUE, OkResponse,
               {SuccessToast("Gift initiated successfully")})
     ELSE /\ vs' = [vs EXCEPT !.isLoading = FALSE]
          /\ step' = Answered(r, FALSE, resp,
               ClientToasts(r.op, resp) \cup
               {ErrorToast(IF Thrown(resp).status = 400
                           THEN "Invalid gift data. Please check your information."
                           ELSE "Failed to initiate gift. Please try again.")})
  /\ pending' = pending \ {r}
  /\ UNCHANGED section

(* MockVerification *)

(* onChange of the gift id field and of the action radio buttons *)
MockSetForm(form) ==
  /\ section = "mock" /\ ~vs.isLoading
  /\ vs' = [vs EXCEPT !.form = form]
  /\ step' = Ran("setForm", {}, {})
  /\ UNCHANGED <<section, pending>>

(* the catch block of handleSubmit and of handleQuickAction *)
MockCatch(error) ==
  IF error.status = 404 THEN ErrorToast("Gift not found")
  ELSE IF error.status = 400
  THEN ErrorToast(OrElse(error.detail, "Invalid verification request"))
  ELSE ErrorToast("Failed to process verification")

VerifyRequest(act, giftId, action, new) ==
  [op |-> "verifyGift", act |-> act, giftId |-> giftId, action |-> action,
   touched |-> Touched(vs, new, "isLoading")]

(* handleSubmit; the button is disabled while loading or for a blank id *)
MockHandleSubmit ==
  /\ section = "mock" /\ ~vs.isLoading /\ Trim(vs.form.gift_id) # ""
  /\ IF Trim(vs.form.gift_id) = ""
     THEN /\ step' = Ran("handleSubmit", {}, {ErrorToast("Please enter a gift ID")})
          /\ UNCHANGED <<vs, pending>>
     ELSE LET new == [vs EXCEPT !.isLoading = TRUE]
              r == VerifyRequest("handleSubmit", vs.form.gift_id,
                                 vs.form.action, new)
          IN /\ vs' = new
             /\ pending' = pending \cup {r}
             /\ step' = Ran("handleSubmit", {r}, {})
  /\ UNCHANGED section

(* handleQuickAction(form.gift_id, action) of the Quick Accept and Quick
   Decline buttons *)
MockHandleQuickAction(action) ==
  /\ section = "mock" /\ ~vs.isLoading /\ Trim(vs.form.gift_id) # ""
  /\ LET giftId == vs.form.gift_id IN
     IF Trim(giftId) = ""
     THEN /\ step' = Ran("handleQuickAction", {},
                         {ErrorToast("Please enter a gift ID first")})
          /\ UNCHANGED <<vs, pending>>
     ELSE LET new == [vs EXCEPT
                         !.form = [gift_id |-> giftId, action |-> action],
                         !.isLoading = TRUE]
              r == VerifyRequest("handleQuickAction", giftId, action, new)
          IN /\ vs' = new
             /\ pending' = pending \cup {r}
             /\ step' = Ran("handleQuickAction", {r}, {})
  /\ UNCHANGED section

(* the rest of handleSubmit / handleQuickAction, after the await *)
VerifyAnswered(r, resp) ==
  /\ section = "mock" /\ r \in pending /\ r.op = "verifyGift"
  /\ IF resp.ok
     THEN /\ vs' = [form |-> [gift_id |-> "", action |-> "accept"],
                    isLoading |-> FALSE,
                    lastVerification |->
                      [gift_id |-> r.giftId, action |-> r.action]]
          /\ step' = Answered(r, TRUE, OkResponse,
               {SuccessToast(IF r.action = "accept"
                             THEN "Gift verification accepted successfully"
                             ELSE "Gift verification declined successfully")})
     ELSE /\ vs' = [vs EXCEPT !.isLoading = FALSE]
          /\ step' = Answered(r, FALSE, resp,
               ClientToasts(r.op, resp) \cup {MockCatch(Thrown(resp))})
  /\ pending' = pending \ {r}
  /\ UNCHANGED section

(* GiftManagement *)
MaxPending == 2

(* what the backend answers to getAllGifts in this view: gifts g1, g2 in
   the flat shape, or no gifts field *)
FetchedLists ==
  { [success |-> TRUE] } \cup
  { [success |-> TRUE, gifts |-> l] :
      l \in { <<>>,
              << FlatOnly(CHOOSE d \in WireData : d.id = "g1") >>,
              << FlatOnly(CHOOSE d \in WireData : d.id = "g1"),
                 FlatOnly(CHOOSE d \in WireData : d.id = "g2") >> } }

(* the Refresh button: loadGifts up to its await *)
ManagementRefresh ==
  /\ section = "management" /\ ~vs.isLoading
  /\ Cardinality(pending) < MaxPending
  /\ vs' = [vs EXCEPT !.isLoading = TRUE]
  /\ pending' = pending \cup {[op |-> "getAllGifts", act |-> "loadGifts"]}
  /\ step' = Ran("loadGifts", {[op |-> "getAllGifts", act |-> "loadGifts"]}, {})
  /\ UNCHANGED section

(* the rest of loadGifts, after the await: resp is the body of a
   successful answer, or the error of a failed one *)
LoadGiftsAnswered(r, resp) ==
  /\ section = "management" /\ r \in pending /\ r.op = "getAllGifts"
  /\ IF resp \in FetchedLists
     THEN /\ vs' = [vs EXCEPT !.gifts = Returned(r.op, resp).gifts,
                              !.isLoading = FALSE]
          /\ step' = Answered(r, TRUE, OkResponse, {})
     ELSE /\ vs' = [vs EXCEPT !.isLoading = FALSE]
          /\ step' = Answered(r, FALSE, resp,
               ClientToasts(r.op, resp)
                 \cup {ErrorToast("Failed to load gifts")})
  /\ pending' = pending \ {r}
  /\ UNCHANGED section

(* updateGiftStatus up to its await; the selector of a gift is shown when
   the list is, and is disabled while isUpdating names the gift *)
UpdateGiftStatus(giftId, newStatus) ==
  /\ section = "management" /\ ~vs.isLoading
  /\ \E i \in 1..Len(vs.gifts) :
       vs.gifts[i].gift_id = giftId /\ vs.gifts[i].status # newStatus
  /\ vs.isUpdating # giftId
  /\ Cardinality(pending) < MaxPending
  /\ LET new == [vs EXCEPT !.isUpdating = giftId]
         r == [op |-> "updateGiftStatus", act |-> "updateGiftStatus",
               giftId |-> giftId, status |-> newStatus,
               touched |-> Touched(vs, new, "isUpdating")]
     IN /\ vs' = new
        /\ pending' = pending \cup {r}
        /\ step' = Ran("updateGiftStatus", {r}, {})
  /\ UNCHANGED section

(* setGifts(prev => prev.map(...)); timestamps are the numbers of their
   instants, and the clock of new Date() reads 3, later than every
   timestamp the backend sent *)
WithStatus_AllRows(gifts, giftId, newStatus) ==
  [i \in 1..Len(gifts) |->
     [gifts[i] EXCEPT !.status = newStatus, !.updated_at = 3]]
WithStatus(gifts, giftId, newStatus) ==
  [i \in 1..Len(gifts) |->
     IF gifts[i].gift_id = giftId
     THEN [gifts[i] EXCEPT !.status = newStatus, !.updated_at = 3]
     ELSE gifts[i]]

UpdateSucceeded(r) ==
  /\ section = "management" /\ r \in pending /\ r.op = "updateGiftStatus"
  /\ vs' = [vs EXCEPT !.gifts = WithStatus(vs.gifts, r.giftId, r.status),
                      !.isUpdating = NoItem]
  /\ step' = Answered(r, TRUE, OkResponse,
       { [kind |-> "success", msg |-> "Gift status updated to",
          status |-> r.status] })
  /\ pending' = pending \ {r}
  /\ UNCHANGED section

UpdateFailed_Applies(r, e) ==
  /\ section = "management" /\ r \in pending /\ r.op = "updateGiftStatus"
  /\ vs' = [vs EXCEPT !.gifts = WithStatus(vs.gifts, r.giftId, r.status),
                      !.isUpdating = NoItem]
  /\ step' = Answered(r, FALSE, e,
       ClientToasts(r.op, e) \cup {ErrorToast("Failed to update gift status")})
  /\ pending' = pending \ {r}
  /\ UNCHANGED section
UpdateFailed(r, e) ==
  /\ section = "management" /\ r \in pending /\ r.op = "updateGiftStatus"
  /\ vs' = [vs EXCEPT !.isUpdating = NoItem]
  /\ step' = Answered(r, FALSE, e,
       ClientToasts(r.op, e) \cup {ErrorToast("Failed to update gift status")})
  /\ pending' = pending \ {r}
  /\ UNCHANGED section

(* BulkOperations *)
MaxBulkGifts == 2

(* a gift of the JSON input, as validateJson reads it: the set of the
   fields that are present (and truthy) *)
CompleteGift ==
  {"recipient", "fullName", "email", "address", "line1", "city", "state",
   "zip", "country", "gift", "type", "templateId", "message"}
Without(field) ==
  IF field = "recipient"
  THEN {"gift", "type", "templateId", "message"}
  ELSE IF field = "address"
  THEN CompleteGift \ {"address", "line1", "city", "state", "zip", "country"}
  ELSE IF field = "gift"
  THEN CompleteGift \ {"gift", "type", "templateId", "message"}
  ELSE CompleteGift \ {field}

(* the text of the JSON input: empty, whitespace, not JSON, JSON without a
   gifts array, or JSON with a gifts array; a gift has every field, or lacks
   one field or object, or lacks the email and the city *)
NoInput == [kind |-> "empty"]
BulkInputs ==
  { NoInput, [kind |-> "blank"], [kind |-> "malformed"],
    [kind |-> "object"] }
    \cup { [kind |-> "object", gifts |-> l] :
             l \in UNION { [1..n -> {CompleteGift, CompleteGift \ {"email", "city"}}
                                      \cup {Without(f) : f \in CompleteGift}] :
                            n \in 0..MaxBulkGifts } }
IsBlankInput(input) == input.kind \in {"empty", "blank"}

NoValidationError == [gift |-> 0, text |-> ""]

(* the checks validateJson makes on one gift, in its order *)
GiftChecks ==
  << <<"recipient", "Missing recipient information">>,
     <<"fullName", "Missing recipient full name">>,
     <<"email", "Missing recipient email">>,
     <<"address", "Missing recipient address">>,
     <<"line1", "Missing address line 1">>,
     <<"city", "Missing city">>,
     <<"state", "Missing state">>,
     <<"zip", "Missing ZIP code">>,
     <<"gift", "Missing gift information">>,
     <<"type", "Missing gift type">>,
     <<"message", "Missing gift message">> >>
FailedChecks_NoZip(gift) ==
  { k \in 1..Len(GiftChecks) :
      GiftChecks[k][1] \notin gift /\ GiftChecks[k][1] # "zip" }
FailedChecks(gift) ==
  { k \in 1..Len(GiftChecks) : GiftChecks[k][1] \notin gift }
Min(S) == CHOOSE x \in S : \A y \in S : x <= y

(* validateJson *)
validateJson(input) ==
  IF input.kind # "object" THEN [gift |-> 0, text |-> "Invalid JSON format"]
  ELSE IF "gifts" \notin DOMAIN input
  THEN [gift |-> 0, text |-> "JSON must contain a \"gifts\" array"]
  ELSE IF Len(input.gifts) = 0
  THEN [gift |-> 0, text |-> "Gifts array cannot be empty"]
  ELSE LET bad == { i \in 1..Len(input.gifts) :
                      FailedChecks(input.gifts[i]) # {} }
       IN IF bad = {} THEN NoValidationError
          ELSE LET i == Min(bad)
               IN [gift |-> i,
                   text |-> GiftChecks[Min(FailedChecks(input.gifts[i]))][2]]

(* the sample of generateSampleBulkData: two gifts with every field *)
handleLoadSample ==
  /\ section = "bulk" /\ ~vs.isLoading
  /\ vs' = [vs EXCEPT !.jsonInput =
                        [kind |-> "object",
                         gifts |-> <<CompleteGift, CompleteGift>>],
                      !.validationError = NoValidationError]
  /\ step' = Ran("handleLoadSample", {}, {})
  /\ UNCHANGED <<section, pending>>

handleJsonChange(value) ==
  /\ section = "bulk" /\ ~vs.isLoading
  /\ vs' = [vs EXCEPT !.jsonInput = value,
                      !.validationError =
                         IF ~IsBlankInput(value) THEN validateJson(value)
                         ELSE NoValidationError]
  /\ step' = Ran("handleJsonChange", {}, {})
  /\ UNCHANGED <<section, pending>>

BulkHandleClear ==
  /\ section = "bulk" /\ ~vs.isLoading
  /\ vs' = [vs EXCEPT !.jsonInput = NoInput,
                      !.validationError = NoValidationError,
                      !.lastResult = Null]
  /\ step' = Ran("handleClear", {}, {})
  /\ UNCHANGED <<section, pending>>

(* handleSubmit up to its await; the submit button is disabled while
   loading, while a validation error is shown and for a blank input *)
BulkHandleSubmit ==
  /\ section = "bulk"
  /\ ~vs.isLoading
  /\ vs.validationError = NoValidationError
  /\ ~IsBlankInput(vs.jsonInput)
  /\ IF IsBlankInput(vs.jsonInput)
     THEN /\ step' = Ran("BulkOperations.handleSubmit", {},
                         {ErrorToast("Please enter JSON data")})
          /\ UNCHANGED <<vs, pending>>
     ELSE IF validateJson(vs.jsonInput) # NoValidationError
     THEN /\ step' = Ran("BulkOperations.handleSubmit", {},
                         {[kind |-> "error", msg |-> "Validation Error",
                           error |-> validateJson(vs.jsonInput)]})
          /\ UNCHANGED <<vs, pending>>
     ELSE LET new == [vs EXCEPT !.isLoading = TRUE]
              r == [op |-> "bulkInitiateGifts",
                    act |-> "BulkOperations.handleSubmit",
                    data |-> vs.jsonInput,
                    touched |-> Touched(vs, new, "isLoading")]
          IN /\ vs' = new
             /\ pending' = pending \cup {r}
             /\ step' = Ran("BulkOperations.handleSubmit", {r}, {})
  /\ UNCHANGED section

(* BulkGiftResponse for n gifts *)
BulkResponses(n) ==
  { [totalGifts |-> n, successfulGifts |-> k, failedGifts |-> n - k] :
      k \in 0..n }

BulkSucceeded(r, response) ==
  /\ section = "bulk" /\ r \in pending /\ r.op = "bulkInitiateGifts"
  /\ response \in BulkResponses(Len(r.data.gifts))
  /\ vs' = [isLoading |-> FALSE, jsonInput |-> NoInput,
            validationError |-> NoValidationError, lastResult |-> response]
  /\ step' = Answered(r, TRUE, OkResponse,
       { [kind |-> "success", msg |-> "Successfully initiated gifts",
          count |-> IF response.successfulGifts # 0
                    THEN response.successfulGifts
                    ELSE Len(r.data.gifts)] }
       \cup
       IF response.failedGifts > 0
       THEN { [kind |-> "error", msg |-> "gifts failed to initiate",
               count |-> response.failedGifts] }
       ELSE {})
  /\ pending' = pending \ {r}
  /\ UNCHANGED section

BulkCatch(error) ==
  IF error.status = 400
  THEN ErrorToast("Invalid bulk gift data. Please check your JSON format.")
  ELSE ErrorToast("Failed to initiate bulk gifts. Please try again.")

BulkFailed(r, e) ==
  /\ section = "bulk" /\ r \in pending /\ r.op = "bulkInitiateGifts"
  /\ vs' = [vs EXCEPT !.isLoading = FALSE]
  /\ step' = Answered(r, FALSE, e,
                      ClientToasts(r.op, e) \cup {BulkCatch(Thrown(e))})
  /\ pending' = pending \ {r}
  /\ UNCHANGED section

(* ExcelOperations *)
MaxUploadSize == 10485760
MaxDropped == 2
ExcelTypes == {"xlsx", "xls"}
(* the files dropped on the drop zone: one that is no Excel file, an Excel
   file of exactly the size limit and one a byte over it *)
DroppedFiles ==
  { [type |-> "pdf", size |-> 1024],
    [type |-> "xlsx", size |-> MaxUploadSize],
    [type |-> "xls", size |-> MaxUploadSize + 1] }

(* handleDownloadTemplate up to its await *)
handleDownloadTemplate ==
  /\ section = "excel" /\ ~vs.isDownloading
  /\ Cardinality(pending) < MaxPending
  /\ LET r == [op |-> "downloadExcelTemplate", act |-> "handleDownloadTemplate"]
     IN /\ vs' = [vs EXCEPT !.isDownloading = TRUE]
        /\ pending' = pending \cup {r}
        /\ step' = Ran("handleDownloadTemplate", {r}, {})
  /\ UNCHANGED section

DownloadAnswered(r, resp) ==
  /\ section = "excel" /\ r \in pending /\ r.op = "downloadExcelTemplate"
  /\ vs' = [vs EXCEPT !.isDownloading = FALSE]
  /\ step' =
       IF resp.ok
       THEN Answered(r, TRUE, OkResponse,
                     {SuccessToast("Template downloaded successfully!")})
       ELSE Answered(r, FALSE, resp,
                     ClientToasts(r.op, resp)
                       \cup {ErrorToast("Failed to download template")})
  /\ pending' = pending \ {r}
  /\ UNCHANGED section

(* handleFileUpload up to its await, entered from handler act *)
handleFileUpload(act, file) ==
  LET new == [vs EXCEPT !.isUploading = TRUE, !.uploadResult = Null]
      r == [op |-> "uploadExcelFile", act |-> act, file |-> file,
            touched |-> Touched(vs, new, "isUploading")]
  IN /\ vs' = new
     /\ pending' = pending \cup {r}
     /\ step' = Ran(act, {r}, {})

(* handleFileChange of the file input, which is disabled while uploading *)
handleFileChange(file) ==
  /\ section = "excel" /\ ~vs.isUploading
  /\ Cardinality(pending) < MaxPending
  /\ IF file.type \notin ExcelTypes
     THEN /\ step' = Ran("handleFileChange", {},
                {ErrorToast("Please select a valid Excel file (.xlsx or .xls)")})
          /\ UNCHANGED <<vs, pending>>
     ELSE IF file.size > MaxUploadSize
     THEN /\ step' = Ran("handleFileChange", {},
                {ErrorToast("File size must be less than 10MB")})
          /\ UNCHANGED <<vs, pending>>
     ELSE handleFileUpload("handleFileChange", file)
  /\ UNCHANGED section

(* handleDrop of the drop zone: the first dropped file of an Excel type *)
handleDrop(files) ==
  /\ section = "excel"
  /\ Cardinality(pending) < MaxPending
  /\ LET excel == { i \in 1..Len(files) : files[i].type \in ExcelTypes }
     IN IF excel # {}
        THEN handleFileUpload("handleDrop", files[Min(excel)])
        ELSE /\ step' = Ran("handleDrop", {},
                            {ErrorToast("Please drop a valid Excel file")})
             /\ UNCHANGED <<vs, pending>>
  /\ UNCHANGED section

UploadSucceeded(r, response) ==
  /\ section = "excel" /\ r \in pending /\ r.op = "uploadExcelFile"
  /\ vs' = [vs EXCEPT !.isUploading = FALSE, !.uploadResult = response]
  /\ step' = Answered(r, TRUE, OkResponse,
       { [kind |-> "success", msg |-> "Successfully processed gifts",
          count |-> response.processedGifts] }
       \cup
       IF response.invalidRows > 0
       THEN { [kind |-> "error", msg |-> "rows failed to process",
               count |-> response.invalidRows] }
       ELSE {})
  /\ pending' = pending \ {r}
  /\ UNCHANGED section

ExcelCatch(error) ==
  IF error.status = 400 THEN ErrorToast("Invalid Excel file format or data")
  ELSE IF error.status = 413
  THEN ErrorToast("File too large. Please use a smaller file.")
  ELSE ErrorToast("Failed to upload Excel file")

UploadFailed(r, e) ==
  /\ section = "excel" /\ r \in pending /\ r.op = "uploadExcelFile"
  /\ vs' = [vs EXCEPT !.isUploading = FALSE]
  /\ step' = Answered(r, FALSE, e,
                      ClientToasts(r.op, e) \cup {ExcelCatch(Thrown(e))})
  /\ pending' = pending \ {r}
  /\ UNCHANGED section

(* EmailConfiguration *)

(* the rest of loadEmailConfig, after the await *)
LoadEmailConfigAnswered(r, resp) ==
  /\ section = "email" /\ r \in pending /\ r.op = "getEmailConfig"
  /\ IF resp.ok
     THEN LET response ==
                [resend_api_key |-> "re_0",
                 from_email |-> <<"a", "@", "b", ".", "c">>,
                 sending_domain |-> "mail.x.io"]
          IN vs' = [vs EXCEPT !.config = response, !.form = response,
                              !.isLoadingConfig = FALSE]
          /\ step' = Answered(r, TRUE, OkResponse, {})
     ELSE /\ vs' = [vs EXCEPT !.isLoadingConfig = FALSE]
          /\ step' = Answered(r, FALSE, resp,
               ClientToasts(r.op, resp) \cup
               IF Thrown(resp).status # 404
               THEN {ErrorToast("Failed to load email configuration")}
               ELSE {})
  /\ pending' = pending \ {r}
  /\ UNCHANGED section

(* onChange of the fields of the configuration form *)
EmailSetForm(form) ==
  /\ section = "email" /\ ~vs.isLoadingConfig /\ ~vs.isLoading
  /\ vs' = [vs EXCEPT !.form = form]
  /\ step' = Ran("setForm", {}, {})
  /\ UNCHANGED <<section, pending>>

(* the validation at the head of handleSubmit: the error, or none *)
EmailValidation(form) ==
  IF Trim(form.resend_api_key) = ""
  THEN {ErrorToast("Resend API key is required")}
  ELSE IF IsBlank(form.from_email) THEN {ErrorToast("From email is required")}
  ELSE IF ~IsValidEmail(form.from_email)
  THEN {ErrorToast("Please enter a valid from email address")}
  ELSE IF Trim(form.sending_domain) = ""
  THEN {ErrorToast("Sending domain is required")}
  ELSE {}

(* handleSubmit up to its await *)
EmailHandleSubmit ==
  /\ section = "email" /\ ~vs.isLoadingConfig /\ ~vs.isLoading
  /\ IF EmailValidation(vs.form) # {}
     THEN /\ step' = Ran("EmailConfiguration.handleSubmit", {},
                         EmailValidation(vs.form))
          /\ UNCHANGED <<vs, pending>>
     ELSE LET new == [vs EXCEPT !.isLoading = TRUE]
              r == [op |-> "updateEmailConfig",
                    act |-> "EmailConfiguration.handleSubmit",
                    data |-> vs.form,
                    touched |-> Touched(vs, new, "isLoading")]
          IN /\ vs' = new
             /\ pending' = pending \cup {r}
             /\ step' = Ran("EmailConfiguration.handleSubmit", {r}, {})
  /\ UNCHANGED section

EmailCatch(error) ==
  IF error.status = 400
  THEN ErrorToast(OrElse(error.detail, "Invalid configuration"))
  ELSE ErrorToast("Failed to update email configuration")

EmailUpdateAnswered(r, resp) ==
  /\ section = "email" /\ r \in pending /\ r.op = "updateEmailConfig"
  /\ IF resp.ok
     THEN /\ vs' = [vs EXCEPT !.config = r.data, !.lastUpdate = r.data,
                              !.isLoading = FALSE]
          /\ step' = Answered(r, TRUE, OkResponse,
               {SuccessToast("Email configuration updated successfully")})
     ELSE /\ vs' = [vs EXCEPT !.isLoading = FALSE]
          /\ step' = Answered(r, FALSE, resp,
               ClientToasts(r.op, resp) \cup {EmailCatch(Thrown(resp))})
  /\ pending' = pending \ {r}
  /\ UNCHANGED section

(* FulfillmentConfiguration *)
(* new URL(u) does not throw *)
ParsesAsUrl(u) == u = "https://fulfil.example/api"

(* the rest of loadConfig, after the await *)
LoadConfigAnswered(r, resp) ==
  /\ section = "fulfillment" /\ r \in pending /\ r.op = "getFulfillmentConfig"
  /\ vs' = IF resp.ok
           THEN [vs EXCEPT !.form = [api_url |-> "https://fulfil.example/api",
                                     api_key |-> "fk_0"],
                           !.isLoadingConfig = FALSE]
           ELSE [vs EXCEPT !.isLoadingConfig = FALSE]
  /\ step' = IF resp.ok THEN Answered(r, TRUE, OkResponse, {})
             ELSE Answered(r, FALSE, resp, ClientToasts(r.op, resp))
  /\ pending' = pending \ {r}
  /\ UNCHANGED section

(* the form is shown, and can be edited and submitted, while loadConfig is
   still awaiting its answer *)
FulfillmentSetForm(form) ==
  /\ section = "fulfillment" /\ ~vs.isLoading
  /\ vs' = [vs EXCEPT !.form = form]
  /\ step' = Ran("setForm", {}, {})
  /\ UNCHANGED <<section, pending>>

FulfillmentValidation(form) ==
  IF Trim(form.api_url) = "" THEN {ErrorToast("API URL is required")}
  ELSE IF Trim(form.api_key) = "" THEN {ErrorToast("API Key is required")}
  ELSE IF ~ParsesAsUrl(Trim(form.api_url))
  THEN {ErrorToast("Please enter a valid URL")}
  ELSE {}

(* handleSubmit up to its await *)
FulfillmentHandleSubmit ==
  /\ section = "fulfillment" /\ ~vs.isLoading
  /\ IF FulfillmentValidation(vs.form) # {}
     THEN /\ step' = Ran("FulfillmentConfiguration.handleSubmit", {},
                         FulfillmentValidation(vs.form))
          /\ UNCHANGED <<vs, pending>>
     ELSE LET new == [vs EXCEPT !.isLoading = TRUE]
              r == [op |-> "updateFulfillmentConfig",
                    act |-> "FulfillmentConfiguration.handleSubmit",
                    data |-> vs.form,
                    touched |-> Touched(vs, new, "isLoading")]
          IN /\ vs' = new
             /\ pending' = pending \cup {r}
             /\ step' = Ran("FulfillmentConfiguration.handleSubmit", {r}, {})
  /\ UNCHANGED section

(* the catch block reads error.response?.data?.message of the thrown Error *)
FulfillmentCatch(error) ==
  ErrorToast(OrElse(error.dataMessage,
                    "Failed to update fulfillment configuration"))

FulfillmentUpdateAnswered(r, resp) ==
  /\ section = "fulfillment" /\ r \in pending
  /\ r.op = "updateFulfillmentConfig"
  /\ IF resp.ok
     THEN /\ vs' = [vs EXCEPT !.lastUpdate = r.data, !.isLoading = FALSE]
          /\ step' = Answered(r, TRUE, OkResponse,
               {SuccessToast("Fulfillment configuration updated successfully")})
     ELSE /\ vs' = [vs EXCEPT !.isLoading = FALSE]
          /\ step' = Answered(r, FALSE, resp,
               ClientToasts(r.op, resp) \cup {FulfillmentCatch(Thrown(resp))})
  /\ pending' = pending \ {r}
  /\ UNCHANGED section

(* APIStatus *)
MaxTimers == 3

(* loadHealthStatus up to its await, as the closure of a render in which
   autoRefresh had the value quiet; the requests in flight are told apart
   by seq *)
loadHealthStatus(act, quiet) ==
  LET r == [op |-> "healthCheck", act |-> act, quiet |-> quiet,
            seq |-> Min((0..MaxPending) \ { q.seq : q \in pending })]
  IN /\ Cardinality(pending) < MaxPending
     /\ pending' = pending \cup {r}
     /\ step' = Ran(act, {r}, {})

(* the rest of loadHealthStatus, after the await *)
HealthAnswered(r, resp) ==
  /\ section = "api" /\ r \in pending /\ r.op = "healthCheck"
  /\ vs' = [vs EXCEPT !.healthStatus = IF resp.ok THEN "healthy" ELSE "error",
                      !.isLoadingHealth = FALSE]
  /\ step' = IF resp.ok THEN Answered(r, TRUE, OkResponse, {})
             ELSE Answered(r, FALSE, resp,
                    ClientToasts(r.op, resp) \cup
                    IF ~r.quiet
                    THEN {ErrorToast("Failed to load API health status")}
                    ELSE {})
  /\ pending' = pending \ {r}
  /\ UNCHANGED <<section, timers>>

(* handleRefresh of the Refresh button, disabled while either load runs *)
handleRefresh ==
  /\ section = "api" /\ ~vs.isLoadingHealth /\ ~vs.isLoadingProduction
  /\ loadHealthStatus("handleRefresh", vs.autoRefresh)
  /\ vs' = [vs EXCEPT !.isLoadingHealth = TRUE, !.isLoadingProduction = TRUE]
  /\ UNCHANGED <<section, timers>>

(* the rest of loadProductionReadiness, after its simulated delay *)
ProductionLoaded ==
  /\ section = "api" /\ vs.isLoadingProduction
  /\ vs' = [vs EXCEPT !.isLoadingProduction = FALSE]
  /\ step' = Ran("loadProductionReadiness", {}, {})
  /\ UNCHANGED <<section, pending, timers>>

(* clearInterval(id); the call is guarded by `if (id)` *)
clearInterval(active, id) == { t \in active : t.id # id }

(* onChange of the auto-refresh checkbox, and the effect on [autoRefresh]
   that the change runs: first the cleanup the previous run of the effect
   returned, then the effect with the values of the new render. The cleanup
   an effect returns reads refreshInterval as that render had it, kept here
   in vs.cleanup. The state the effect sets is rendered before the next
   event is handled *)
ToggleAutoRefresh ==
  /\ section = "api"
  /\ LET on == ~vs.autoRefresh
         cleaned == clearInterval(timers.active, vs.cleanup)
         id == timers.made + 1
     IN IF on
        THEN /\ timers.made < MaxTimers
             /\ timers' = [made |-> id,
                           active |-> cleaned \cup {[id |-> id, mounted |-> TRUE]}]
             /\ vs' = [vs EXCEPT !.autoRefresh = TRUE,
                                 !.refreshInterval = id,
                                 !.cleanup = vs.refreshInterval]
        ELSE /\ timers' = [timers EXCEPT
                             !.active = clearInterval(cleaned, vs.refreshInterval)]
             /\ vs' = [vs EXCEPT !.autoRefresh = FALSE,
                                 !.refreshInterval = 0,
                                 !.cleanup = vs.refreshInterval]
  /\ step' = Ran("setAutoRefresh", {}, {})
  /\ UNCHANGED <<section, pending>>

(* a tick of interval timer t: loadHealthStatus of the render that made the
   timer, in which autoRefresh was true. The state of a component that was
   unmounted is not set *)
Tick(t) ==
  /\ t \in timers.active
  /\ IF t.mounted
     THEN /\ loadHealthStatus("tick", TRUE)
          /\ vs' = [vs EXCEPT !.isLoadingHealth = TRUE]
     ELSE /\ step' = Ran("tick",
                         {[op |-> "healthCheck", act |-> "tick",
                           quiet |-> TRUE, seq |-> 0]}, {})
          /\ UNCHANGED <<vs, pending>>
  /\ UNCHANGED <<section, timers>>

(* the timers that stay active when the shown section is unmounted: the
   status section runs the cleanup of its effect *)
Unmounted ==
  IF section = "api"
  THEN { [t EXCEPT !.mounted = FALSE] :
           t \in clearInterval(timers.active, vs.cleanup) }
  ELSE timers.active

(* Statistics *)
(* the filter effect: the gifts whose campaign id contains the campaign
   filter, letter case aside, and whose status is the status filter; an
   empty filter is not applied.  Strings are compared by their characters *)
FilterGifts_DropsFirst(gifts, campaignFilter, statusFilter) ==
  IF statusFilter = "" \/ gifts = <<>> THEN gifts ELSE Tail(gifts)
FilterGifts(gifts, campaignFilter, statusFilter) ==
  LET chars == [t \in {"", "c1", "c2", "C12"} |->
                  IF t = "c1" THEN <<"c", "1">>
                  ELSE IF t = "c2" THEN <<"c", "2">>
                  ELSE IF t = "C12" THEN <<"C", "1", "2">>
                  ELSE <<>>]
      toLowerCase(t) == [i \in 1..Len(t) |-> IF t[i] = "C" THEN "c" ELSE t[i]]
      includes(t, part) ==
        \E i \in 0..(Len(t) - Len(part)) :
          \A j \in 1..Len(part) : t[i + j] = part[j]
      InCampaign(gift) ==
        includes(toLowerCase(chars[OrElse(gift.meta.campaign_id, "")]),
                 toLowerCase(chars[campaignFilter]))
      HasStatus(gift) == gift.status = statusFilter
      byCampaign == IF campaignFilter # "" THEN SelectSeq(gifts, InCampaign)
                    ELSE gifts
  IN IF statusFilter # "" THEN SelectSeq(byCampaign, HasStatus)
     ELSE byCampaign

(* calculateStatistics; statusCounts maps the statuses that occur to their
   counts *)
calculateStatistics_CountsNothing(gifts) ==
  [total |-> Len(gifts), pending |-> 0, verified |-> 0, cancelled |-> 0,
   dispatched |-> 0, delivered |-> 0, failed |-> 0, verifiedCount |-> 0,
   unverifiedCount |-> Len(gifts), statusCounts |-> <<>>]
calculateStatistics(gifts) ==
  LET total == Len(gifts)
      statusOf(i) == OrElse(gifts[i].status, "unknown")
      statusCounts ==
        [s \in {statusOf(i) : i \in 1..total} |->
           Cardinality({i \in 1..total : statusOf(i) = s})]
      count(s) == IF s \in DOMAIN statusCounts THEN statusCounts[s] ELSE 0
      verifiedCount == Cardinality({i \in 1..total : gifts[i].verified})
  IN [total |-> total, pending |-> count("pending"),
      verified |-> count("verified"), cancelled |-> count("cancelled"),
      dispatched |-> count("dispatched"), delivered |-> count("delivered"),
      failed |-> count("failed"), verifiedCount |-> verifiedCount,
      unverifiedCount |-> total - verifiedCount,
      statusCounts |-> statusCounts]

(* the filter effect, run after a change of the list or of a filter, and
   the render that follows it.  The render sorts filteredGifts in place,
   latest update first (Array.prototype.sort is stable); when no filter is
   set the effect has stored the array of gifts itself in filteredGifts, so
   the sort reorders gifts too *)
StatisticsRendered(s) ==
  LET filtered == FilterGifts(s.gifts, s.campaignFilter, s.statusFilter)
      n == Len(filtered)
      rank(i) ==
        Cardinality({j \in 1..n :
          \/ filtered[j].updated_at > filtered[i].updated_at
          \/ filtered[j].updated_at = filtered[i].updated_at /\ j < i}) + 1
      sorted == [k \in 1..n |-> filtered[CHOOSE i \in 1..n : rank(i) = k]]
  IN [s EXCEPT !.filteredGifts = sorted,
               !.stats = calculateStatistics(filtered),
               !.gifts = IF s.campaignFilter = "" /\ s.statusFilter = ""
                         THEN sorted ELSE @]

(* the Refresh button: loadGifts up to its await *)
StatisticsLoadGifts ==
  /\ section = "statistics" /\ ~vs.isLoading
  /\ vs' = [vs EXCEPT !.isLoading = TRUE]
  /\ pending' = {[op |-> "getAllGifts", act |-> "loadGifts"]}
  /\ step' = Ran("loadGifts", {[op |-> "getAllGifts", act |-> "loadGifts"]}, {})
  /\ UNCHANGED section

(* the rest of loadGifts: resp is the body of a successful answer, or the
   error of a failed one *)
StatisticsLoaded(r, resp) ==
  /\ section = "statistics" /\ r \in pending /\ r.op = "getAllGifts"
  /\ IF resp \notin ViewErrors
     THEN /\ vs' = StatisticsRendered(
                     [vs EXCEPT !.gifts = Returned(r.op, resp).gifts,
                                !.isLoading = FALSE])
          /\ step' = Answered(r, TRUE, OkResponse, {})
     ELSE /\ vs' = [vs EXCEPT !.isLoading = FALSE]
          /\ step' = Answered(r, FALSE, resp,
               ClientToasts(r.op, resp)
                 \cup {ErrorToast("Failed to load gifts")})
  /\ pending' = pending \ {r}
  /\ UNCHANGED section

(* the onChange of the campaign selector and of the status selector; the
   selectors are shown when the spinner is not *)
StatisticsSetFilter(name, value) ==
  /\ section = "statistics" /\ ~vs.isLoading
  /\ vs[name] # value
  /\ vs' = StatisticsRendered([vs EXCEPT ![name] = value])
  /\ step' = Ran("setFilter", {}, {})
  /\ UNCHANGED <<section, pending>>

(* MainApp: the sections of the navigation bar whose component is modelled *)
Sections ==
  {"initiate", "management", "bulk", "excel", "mock", "email", "fulfillment"}

(* the state a section component is mounted with *)
Mounted(s) ==
  IF s = "management"
  THEN [gifts |-> <<>>, isLoading |-> TRUE, isUpdating |-> NoItem]
  ELSE IF s = "statistics"
  THEN [gifts |-> <<>>, filteredGifts |-> <<>>, isLoading |-> TRUE,
        campaignFilter |-> "", statusFilter |-> "",
        stats |-> [total |-> 0, pending |-> 0, verified |-> 0,
                   cancelled |-> 0, dispatched |-> 0, delivered |-> 0,
                   failed |-> 0, verifiedCount |-> 0, unverifiedCount |-> 0,
                   statusCounts |-> <<>>]]
  ELSE IF s = "bulk"
  THEN [isLoading |-> FALSE, jsonInput |-> NoInput,
        validationError |-> NoValidationError, lastResult |-> Null]
  ELSE IF s = "excel"
  THEN [isDownloading |-> FALSE, isUploading |-> FALSE,
        uploadResult |-> Null]
  ELSE IF s = "mock"
  THEN [form |-> [gift_id |-> "", action |-> "accept"], isLoading |-> FALSE,
        lastVerification |-> Null]
  ELSE IF s = "email"
  THEN [config |-> Null,
        form |-> [resend_api_key |-> "", from_email |-> <<>>,
                  sending_domain |-> ""],
        isLoading |-> FALSE, isLoadingConfig |-> TRUE, lastUpdate |-> Null]
  ELSE IF s = "fulfillment"
  THEN [form |-> [api_url |-> "", api_key |-> ""], isLoading |-> FALSE,
        isLoadingConfig |-> TRUE, lastUpdate |-> Null]
  ELSE IF s = "api"
  THEN [healthStatus |-> "none", isLoadingHealth |-> TRUE,
        isLoadingProduction |-> TRUE, autoRefresh |-> FALSE,
        refreshInterval |-> 0, cleanup |-> 0]
  ELSE [isLoading |-> FALSE, formData |-> InitialFormData]

(* the requests the mount effect of a section sends *)
MountRequests(s) ==
  IF s \in {"management", "statistics"}
  THEN {[op |-> "getAllGifts", act |-> "loadGifts"]}
  ELSE IF s = "email" THEN {[op |-> "getEmailConfig", act |-> "loadEmailConfig"]}
  ELSE IF s = "fulfillment" THEN {[op |-> "getFulfillmentConfig", act |-> "loadConfig"]}
  ELSE IF s = "api"
  THEN {[op |-> "healthCheck", act |-> "mount", quiet |-> FALSE, seq |-> 0]}
  ELSE {}

(* setActiveSection: the component shown is unmounted and the component of
   section s is mounted; answers to the requests of an unmounted component
   change no state *)
SetActiveSection(s) ==
  /\ s # section
  /\ section' = s
  /\ vs' = Mounted(s)
  /\ pending' = MountRequests(s)
  /\ step' = Ran("setActiveSection", MountRequests(s), {})
  /\ timers' = [timers EXCEPT !.active = Unmounted]

NextViews ==
  \/ InViews(\E s \in Sections : SetActiveSection(s))
  \/ InViews(\E form \in [gift_id : {"", " ", "g1"},
                            action : {"accept", "decline"}] :
               MockSetForm(form))
  \/ InViews(MockHandleSubmit)
  \/ InViews(\E action \in {"accept", "decline"} : MockHandleQuickAction(action))
  \/ InViews(\E r \in pending, resp \in {OkResponse} \cup ViewErrors :
               VerifyAnswered(r, resp))
  \/ InViews(ManagementRefresh)
  \/ InViews(\E r \in pending, resp \in FetchedLists \cup ViewErrors :
               LoadGiftsAnswered(r, resp))
  \/ InViews(\E g \in {"g1", "g2"}, st \in {"pending", "verified", "dispatched"} : UpdateGiftStatus(g, st))
  \/ InViews(\E r \in pending : UpdateSucceeded(r))
  \/ InViews(\E r \in pending, e \in ViewErrors : UpdateFailed(r, e))
  \/ InViews(handleLoadSample)
  \/ InViews(\E value \in BulkInputs :
               (* the text is entered into the empty field in one change: the
                  state after a change depends on the new text only *)
               /\ section = "bulk" /\ vs.jsonInput = NoInput
               /\ handleJsonChange(value))
  \/ InViews(BulkHandleClear)
  \/ InViews(BulkHandleSubmit)
  \/ InViews(\E r \in pending, n \in 0..MaxBulkGifts :
          \E response \in BulkResponses(n) : BulkSucceeded(r, response))
  \/ InViews(\E r \in pending, e \in ViewErrors : BulkFailed(r, e))
  \/ InViews(handleDownloadTemplate)
  \/ InViews(\E r \in pending, resp \in {OkResponse} \cup ViewErrors : DownloadAnswered(r, resp))
  \/ InViews(\E file \in [type : ExcelTypes \cup {"pdf"},
                            size : {1024, MaxUploadSize, MaxUploadSize + 1}] :
               handleFileChange(file))
  \/ InViews(\E n \in 1..MaxDropped : \E files \in [1..n -> DroppedFiles] : handleDrop(files))
  \/ InViews(\E r \in pending, response \in [processedGifts : {0, 1}, invalidRows : {0, 1}] : UploadSucceeded(r, response))
  \/ InViews(\E r \in pending, e \in ViewErrors : UploadFailed(r, e))
  \/ InViews(\E r \in pending, resp \in {OkResponse} \cup ViewErrors : LoadEmailConfigAnswered(r, resp))
  \/ InViews(\E form \in [resend_api_key : {"", "re_1"},
                            from_email : EmailInputs,
                            sending_domain : {"", "mail.x.io"}] :
               EmailSetForm(form))
  \/ InViews(EmailHandleSubmit)
  \/ InViews(\E r \in pending, resp \in {OkResponse} \cup ViewErrors : EmailUpdateAnswered(r, resp))
  \/ InViews(\E r \in pending, resp \in {OkResponse} \cup ViewErrors : LoadConfigAnswered(r, resp))
  \/ InViews(\E form \in [api_url : {"", " ", "fulfil.example",
                                       "https://fulfil.example/api"},
                            api_key : {"", "fk_1"}] :
               FulfillmentSetForm(form))
  \/ InViews(FulfillmentHandleSubmit)
  \/ InViews(\E r \in pending, resp \in {OkResponse} \cup ViewErrors : FulfillmentUpdateAnswered(r, resp))

InitViews == SignedIn /\ call = NoCall /\ ViewsIdle

SpecViews == InitViews /\ [][NextViews]_vars

(* the gift-creation form on its own; a field takes its initial value or
   one other value *)
NextInitiate ==
  \/ InViews(LET values ==
                   [fullName |-> {"", " ", "Ann"},
                    email |-> {<<>>, <<"a", "@", "b">>,
                               <<"a", "@", "b", ".", "c">>},
                    phone |-> {"", "555"}, line1 |-> {"", "1 Main St"},
                    line2 |-> {"", "Apt 2"}, city |-> {"", "Rome"},
                    state |-> {"", "NY"}, zip |-> {"", "10001"},
                    country |-> {"USA", "Italy"},
                    type |-> {"thank_you_card", "birthday_card"},
                    templateId |-> {"template1", "template2"},
                    message |-> {"", "Thanks"},
                    deliveryDate |-> {"", "2026-01-01"},
                    campaignId |-> {"", "c1"},
                    orderSource |-> {"Web Interface", "Phone"}]
             IN \E path \in DOMAIN values :
                  \E value \in values[path] : updateFormData(path, value))
  \/ InViews(InitiateHandleSubmit)
  \/ InViews(\E r \in pending, resp \in {OkResponse} \cup ViewErrors :
               InitiateAnswered(r, resp))

SpecInitiate == InitViews /\ [][NextInitiate]_vars

(* the statistics section, entered from and left for the first section; the
   backend answers with gifts g1 and g2 in either order, in several
   statuses and campaigns, or with no gifts field *)
NextStatistics ==
  \/ InViews(\E s \in {"initiate", "statistics"} : SetActiveSection(s))
  \/ InViews(StatisticsLoadGifts)
  \/ InViews(LET g1 == FlatOnly(CHOOSE d \in WireData : d.id = "g1")
                 g2 == FlatOnly(CHOOSE d \in WireData : d.id = "g2")
                 lists ==
                   { <<>>, <<g1>>, <<g1, g2>>, <<g2, g1>>,
                     <<[g1 EXCEPT !.status = "verified"],
                       [g2 EXCEPT !.campaign_id = "C12"]>>,
                     <<[g1 EXCEPT !.status = "cancelled"],
                       [g2 EXCEPT !.status = "delivered",
                                  !.updated_at = 1]>> }
             IN \E r \in pending :
                  \E resp \in {[success |-> TRUE]}
                              \cup {[success |-> TRUE, gifts |-> l] : l \in lists}
                              \cup ViewErrors :
                    StatisticsLoaded(r, resp))
  \/ InViews(\E value \in {"", "c1", "c2"} :
               StatisticsSetFilter("campaignFilter", value))
  \/ InViews(\E value \in {"", "pending", "verified", "cancelled",
                            "delivered"} :
               StatisticsSetFilter("statusFilter", value))

SpecStatistics == InitViews /\ [][NextStatistics]_vars

(* the status section, entered from and left for the first section *)
NextStatus ==
  \/ InStatus(\E s \in {"initiate", "api"} : SetActiveSection(s))
  \/ InStatus(\E r \in pending, resp \in {OkResponse} \cup ViewErrors :
                HealthAnswered(r, resp))
  \/ InStatus(handleRefresh)
  \/ InStatus(ProductionLoaded)
  \/ InStatus(ToggleAutoRefresh)
  \/ InStatus(\E t \in timers.active : Tick(t))

SpecStatus == InitViews /\ [][NextStatus]_vars

(***************************************************************************)
(* Credential store: the storage helper and the key utilities, each called  *)
(* on its own                                                              *)
(***************************************************************************)
(* storage.get / storage.set / storage.remove on giftlib_user_info: without
   a window they return at once, and an exception of localStorage or of
   JSON.parse is caught; `before` is the content of the store at the call *)
StorageHelper(fn, value) ==
  /\ call' = [pc |-> "store", fn |-> fn, threw |-> FALSE,
              result |-> IF fn = "storage.get" /\ storageAvailable
                         THEN StorageGet(lsUser) ELSE Null,
              key |-> NoItem, before |-> <<lsKey, lsUser>>]
  /\ lsUser' = IF ~storageAvailable \/ fn = "storage.get" THEN lsUser
               ELSE IF fn = "storage.set" THEN Stringify(value)
               ELSE NoJson
  /\ UNCHANGED <<storageAvailable, lsKey, authVars, initVars, loginVars,
                 inflight, sent, lastResp, toasts, view, viewVars>>

(* apiService.getApiKey / setApiKey / removeApiKey: localStorage is used
   unguarded, so that the exception of an inaccessible localStorage reaches
   the caller *)
ApiKeyUtility(fn, k) ==
  /\ call' = [pc |-> "store", fn |-> fn, threw |-> ~storageAvailable,
              result |-> Null,
              key |-> IF fn = "getApiKey" /\ storageAvailable
                      THEN lsKey ELSE NoItem,
              before |-> <<lsKey, lsUser>>]
  /\ lsKey' = IF ~storageAvailable \/ fn = "getApiKey" THEN lsKey
              ELSE IF fn = "setApiKey" THEN k
              ELSE NoItem
  /\ UNCHANGED <<storageAvailable, lsUser, authVars, initVars, loginVars,
                 inflight, sent, lastResp, toasts, view, viewVars>>

NextStore ==
  \/ \E fn \in {"storage.get", "storage.set", "storage.remove"},
        value \in Profiles : StorageHelper(fn, value)
  \/ \E fn \in {"getApiKey", "setApiKey", "removeApiKey"}, k \in Keys :
       ApiKeyUtility(fn, k)

SpecStore == Init /\ [][NextStore]_vars

(***************************************************************************)
(* Properties                                                              *)
(***************************************************************************)
LoggedOutToast == SuccessToast("Logged out successfully")
LoginInvoked == \E t \in toasts : t.msg = "Welcome back"
ErrorRaised == \E t \in toasts : t.kind = "error"
InitFetchFailed == lastResp.origin = "init" /\ ~lastResp.resp.ok
(* the header the claim of section 4.2 expects for a stored key *)
StoredKeyHeader(storedKey) == IF storedKey = NoItem THEN NoHeader ELSE storedKey

(* C1: when the profile fetch of session initialization fails, initialization
   finishes with the persisted key and the persisted profile absent and the
   session Unauthenticated, holding no key in memory *)
Thm_C1_InitFailureClears ==
  InitFetchFailed =>
    /\ lsKey = NoItem
    /\ lsUser = NoJson
    /\ SessionState = "Unauthenticated"
    /\ apiKey = ""
    /\ userInfo = Null
Wit_C1_InitFailure ==
  InitFetchFailed /\ initPc = "done" /\ lastResp.hdr \in Keys

Thm_C3_Transitions ==
  /\ SessionState = "Loading"
  /\ [][ /\ SessionState' = "Loading" => SessionState = "Loading"
         /\ SessionState' # SessionState
              => \/ SessionState = "Loading"
                 \/ /\ SessionState = "Authenticated"
                    /\ SessionState' = "Unauthenticated"
                    /\ LoggedOutToast \in toasts'
                 \/ /\ SessionState = "Unauthenticated"
                    /\ SessionState' = "Authenticated"
                    /\ LoginInvoked' ]_vars
Wit_C3_LoginAfterLogout ==
  LoginInvoked /\ SessionState = "Authenticated" /\ inflight # {}

(* C4: session initialization terminates: the session eventually leaves
   Loading and is then Authenticated or Unauthenticated *)
Thm_C4_InitTerminates ==
  <>(initPc = "done" /\ SessionState \in {"Authenticated", "Unauthenticated"})
Wit_C4_StorageUnavailable ==
  ~storageAvailable /\ initPc = "done" /\ SessionState = "Unauthenticated"

(* C5: when the backend rejects the profile fetch of a login attempt with 401,
   afterwards the persisted key is absent, an error notification has been
   raised and the session is still Unauthenticated with the login form shown *)
Login401 == lastResp.origin = "login" /\ lastResp.resp.status = 401
Thm_C5_Login401 ==
  Login401 =>
    /\ lsKey = NoItem
    /\ ErrorRaised
    /\ SessionState = "Unauthenticated"
    /\ view = "LoginPage"
Wit_C5_Login401 == Login401 /\ lastResp.hdr \in Keys /\ ~loginIsLoading

(* C6: login is invoked only after a profile fetch made with that key has
   succeeded; right after it the session is Authenticated and the key and the
   profile in memory and in the store equal the supplied key and profile *)
Thm_C6_Login ==
  LoginInvoked =>
    /\ lastResp.origin = "login"
    /\ lastResp.resp.ok
    /\ lastResp.hdr \in Keys
    /\ lastResp.body \in Profiles
    /\ SessionState = "Authenticated"
    /\ apiKey = lastResp.hdr
    /\ lsKey = lastResp.hdr
    /\ userInfo = lastResp.body
    /\ StorageGet(lsUser) = lastResp.body
Wit_C6_Login ==
  LoginInvoked /\ lsKey = apiKey /\ lsUser = Stringify(userInfo)

(* C7: after logout the session is Unauthenticated, the key in memory is
   empty, the profile in memory is null and the store holds neither the key
   nor the cached profile *)
Thm_C7_Logout ==
  LoggedOutToast \in toasts =>
    /\ SessionState = "Unauthenticated"
    /\ apiKey = ""
    /\ userInfo = Null
    /\ lsKey = NoItem
    /\ lsUser = NoJson
Wit_C7_Logout ==
  LoggedOutToast \in toasts /\ view = "LoginPage" /\ inflight = {}

(* C8 as stated: the key persisted by a login changes only by logout or by a
   401 response to a request carrying it, and such a 401 response removes it *)
Cex_C8_401Invalidates ==
  [][ /\ (SessionState = "Authenticated" /\ lsKey' # lsKey)
           => \/ LoggedOutToast \in toasts'
              \/ lastResp'.resp.status = 401 /\ lastResp'.hdr = lsKey
      /\ (lastResp'.resp.status = 401 /\ lastResp'.hdr = lsKey
            /\ lsKey # NoItem)
           => lsKey' = NoItem ]_vars

(* C8 amended: while the session is Authenticated the persisted key and
   profile change only by logout, which removes both; during initialization
   they change only when the validating profile fetch fails; a 401 response
   to a request of a section leaves both in the store and only raises the
   Unauthorized notification *)
Thm_C8_CredentialLifetime ==
  [][ /\ (SessionState = "Authenticated"
            /\ (lsKey' # lsKey \/ lsUser' # lsUser))
           => /\ LoggedOutToast \in toasts'
              /\ lsKey' = NoItem /\ lsUser' = NoJson
      /\ (SessionState = "Loading" /\ (lsKey' # lsKey \/ lsUser' # lsUser))
           => lastResp'.origin = "init" /\ ~lastResp'.resp.ok
      /\ (lastResp'.origin = "section" /\ lastResp'.resp.status = 401)
           => /\ lsKey' = lsKey /\ lsUser' = lsUser
              /\ SessionState' = SessionState
              /\ lastResp'.intercepted
                   => toasts' = {ErrorToast("Unauthorized")} ]_vars
Wit_C8_Section401 ==
  /\ lastResp.origin = "section" /\ lastResp.resp.status = 401
  /\ lastResp.intercepted
  /\ SessionState = "Authenticated"
  /\ lsKey = lastResp.hdr

(* C9: the main application is shown exactly when the session is
   Authenticated, the login form exactly when it is Unauthenticated, and
   neither while the session is Loading *)
Thm_C9_Gate ==
  /\ view = "MainApp" <=> SessionState = "Authenticated"
  /\ view = "LoginPage" <=> SessionState = "Unauthenticated"
  /\ SessionState = "Loading" => view = "LoadingSpinner"
Wit_C9_MainAppShown ==
  view = "MainApp" /\ SessionState = "Authenticated" /\ lastResp.origin = "init"

(* C10 as stated: every dispatched request carries the key that is in the
   store at dispatch, and no key header when the store holds none *)
Cex_C10_EveryRequestCarriesKey ==
  \A r \in sent : r.hdr = StoredKeyHeader(lsKey)

(* C10 amended: every request dispatched through the configured client
   carries the key that is in the store at dispatch (no key header when the
   store holds none); the requests of healthCheck and createUser bypass the
   configured client and never carry a key header *)
Thm_C10_KeyHeader ==
  \A r \in sent :
    /\ r.op \in ApiOps => r.hdr = StoredKeyHeader(lsKey)
    /\ r.op \in BareOps => r.hdr = NoHeader
    /\ r.op \in ApiOps \cup BareOps
Wit_C10_SectionRequest ==
  \E r \in sent : r.op \in ApiOps /\ r.hdr = lsKey /\ view = "MainApp"

(* the class of a failure, in the priority order of the global notification *)
FailureClass(e) ==
  IF e.code = "ECONNABORTED" THEN "timeout"
  ELSE IF e.code = "ERR_NETWORK" THEN "unreachable"
  ELSE IF e.status = 401 THEN "401"
  ELSE IF e.status = 403 THEN "403"
  ELSE IF e.status \in 500..599 THEN "5xx"
  ELSE "other"
NotificationOf(class) ==
  IF class = "timeout" THEN {ErrorToast("Request timed out")}
  ELSE IF class = "unreachable" THEN {ErrorToast("Connection failed")}
  ELSE IF class = "401" THEN {ErrorToast("Unauthorized")}
  ELSE IF class = "403" THEN {ErrorToast("Forbidden")}
  ELSE IF class = "5xx" THEN {ErrorToast("Server error")}
  ELSE {}

(* C11 as stated: every failed request of any operation propagates its error
   and raises exactly the one global notification of its class (timeout,
   unreachable, 401, 403, 5xx), none for 400, 404 and unclassified *)
Cex_C11_EveryOperationNotifies ==
  call.pc \in {"thrown", "returned"} /\ "err" \in DOMAIN call =>
    /\ call.pc = "thrown"
    /\ call.toasts = NotificationOf(FailureClass(call.err))

(* C11 amended: every failed request propagates its error to the caller; a
   failed request of an operation of the configured client raises exactly the
   one global notification of its class (timeout, unreachable, 401, 403, 5xx;
   none for 400, 404 and unclassified); a failed healthCheck or createUser
   raises no global notification whatever its class *)
Thm_C11_GlobalNotification ==
  call.pc \in {"thrown", "returned"} /\ "err" \in DOMAIN call =>
    /\ call.pc = "thrown"
    /\ call.op \in ApiOps =>
         call.toasts = NotificationOf(FailureClass(call.err))
    /\ call.op \in BareOps => call.toasts = {}
    /\ Cardinality(call.toasts) <= 1
Wit_C11_ServerErrorNotified ==
  /\ call.pc = "thrown"
  /\ call.op = "verifyGift"
  /\ call.err.status = 503
  /\ call.toasts = {ErrorToast("Server error")}

(* C13: the error given to the caller carries the server-supplied detail if
   present, else the server-supplied message if present, else the transport
   error message if present, else the fixed generic fallback text *)
Thm_C13_MessageOrder ==
  call.pc = "thrown" =>
    LET e == call.err
        m == call.thrown.message
    IN /\ e.detail # "" => m = e.detail
       /\ e.detail = "" /\ e.message # "" => m = e.message
       /\ e.detail = "" /\ e.message = "" /\ e.errmsg # "" => m = e.errmsg
       /\ e.detail = "" /\ e.message = "" /\ e.errmsg = "" =>
            m = "An unexpected error occurred"
Wit_C13_DetailOverMessage ==
  /\ call.pc = "thrown"
  /\ call.err.detail # ""
  /\ call.err.message # ""
  /\ call.err.errmsg # ""
  /\ call.thrown.message = call.err.detail

(* C14 as stated: for a gift response in either wire shape (flat fields only
   or nested objects only) the record returned by the gift-list operations
   has the flat fields and the nested objects populated, and they agree *)
Cex_C14_BothFormsPopulated ==
  call.pc = "returned" /\ call.op \in GiftListOps /\ "gifts" \in DOMAIN call.data =>
    \A i \in 1..Len(call.data.gifts) :
      LET wire == call.data.gifts[i]
          g == call.result.gifts[i]
      IN (wire.recipient = Null /\ wire.gift = Null /\ wire.meta = Null)
           \/ (wire.recipient_name = Undefined /\ wire.gift_type = Undefined)
         => /\ g.recipient_name \notin {Undefined, ""}
            /\ g.recipient_email \notin {Undefined, ""}
            /\ g.gift_type \notin {Undefined, ""}
            /\ g.campaign_id \notin {Undefined, ""}
            /\ g.recipient # Null /\ g.gift # Null /\ g.meta # Null
            /\ g.recipient_name = g.recipient.full_name
            /\ g.recipient_email = g.recipient.email
            /\ g.gift_type = g.gift.type
            /\ g.campaign_id = g.meta.campaign_id

(* the last step handled the failure of a request of operation op *)
FailureOf(op) ==
  /\ "answered" \in DOMAIN step
  /\ ~step.ok
  /\ step.answered.op = op

(* C12 as stated, for the verification view: when its request fails with
   status 404 or 400, the view shows its status-specific message (not found;
   invalid input, with the detail of the server when there is one) and not
   its generic failure message *)
Cex_C12_StatusSpecific ==
  /\ FailureOf("verifyGift") /\ step.err.status = 404 =>
       step.toasts = {ErrorToast("Gift not found")}
  /\ FailureOf("verifyGift") /\ step.err.status = 400 =>
       step.toasts =
         {ErrorToast(IF step.err.detail # "" THEN step.err.detail
                     ELSE "Invalid verification request")}

(* the mutating actions and the in-progress flag of each *)
MutatingOps ==
  {"updateGiftStatus", "verifyGift", "updateEmailConfig",
   "updateFulfillmentConfig", "bulkInitiateGifts", "uploadExcelFile"}
FlagOf(op) ==
  IF op = "updateGiftStatus" THEN "isUpdating"
  ELSE IF op = "uploadExcelFile" THEN "isUploading"
  ELSE "isLoading"
ErrorSurfaced == \E t \in step.toasts : t.kind = "error"

(* C15 as stated: when the request of a mutating action has failed, an error
   is surfaced and every variable of the view other than the in-progress
   flag has the value it had before the action was triggered: the handler
   had changed none of them before sending the request *)
Cex_C15_FailureLeavesState ==
  \A op \in MutatingOps :
    FailureOf(op) => ErrorSurfaced /\ step.answered.touched = {}

(* C15 amended: when the request of a mutating action fails, an error is
   surfaced and the handling of the failure changes no variable of the view
   other than the in-progress flag; triggering the action changes none
   either, except that a quick action has set the form to the gift id and
   the action it was invoked with and an Excel upload has cleared the result
   of the previous upload *)
Thm_C15_FailureHandling ==
  [][ \A op \in MutatingOps :
        FailureOf(op)' =>
          /\ ErrorSurfaced'
          /\ Touched(vs, vs', FlagOf(op)) = {}
          /\ step'.answered.touched \subseteq
               IF step'.act = "handleQuickAction" THEN {"form"}
               ELSE IF op = "uploadExcelFile" THEN {"uploadResult"}
               ELSE {} ]_vars
Wit_C15_QuickActionFailed ==
  /\ FailureOf("verifyGift")
  /\ step.act = "handleQuickAction"
  /\ step.answered.touched = {"form"}
  /\ vs.form = [gift_id |-> "g1", action |-> "decline"]
  /\ ~vs.isLoading

(* C16 as stated: a file offered for upload, by the file picker or by drag
   and drop, that is larger than 10MB or not of an Excel type is rejected
   and no upload request is sent *)
Cex_C16_OnlyAcceptableFilesSent ==
  \A r \in step.sent :
    r.op = "uploadExcelFile" =>
      r.file.type \in {"xlsx", "xls"} /\ r.file.size <= 10 * 1024 * 1024

(* the fields C17 lists as required of a recipient, in the order of the
   form, and the message that names each *)
RequiredOfRecipient ==
  <<"fullName", "email", "address", "line1", "city", "state", "zip">>
NamedBy(field) ==
  IF field = "fullName" THEN "Missing recipient full name"
  ELSE IF field = "email" THEN "Missing recipient email"
  ELSE IF field = "address" THEN "Missing recipient address"
  ELSE IF field = "line1" THEN "Missing address line 1"
  ELSE IF field = "city" THEN "Missing city"
  ELSE IF field = "state" THEN "Missing state"
  ELSE "Missing ZIP code"
LacksRecipientField(gift) ==
  \E k \in 1..Len(RequiredOfRecipient) : RequiredOfRecipient[k] \notin gift
(* the positions of the gifts of the input that lack a recipient field *)
Lacking(input) ==
  IF input.kind = "object" /\ "gifts" \in DOMAIN input
  THEN { i \in 1..Len(input.gifts) : LacksRecipientField(input.gifts[i]) }
  ELSE {}
NoneSentLacking ==
  \A r \in pending \cup step.sent :
    r.op = "bulkInitiateGifts" => Lacking(r.data) = {}

(* C17 as stated: for an input in which a gift lacks a required recipient
   field no request is sent and the error shown names a missing field of the
   first such gift and its 1-based position *)
Cex_C17_NamesFirstLackingGift ==
  /\ NoneSentLacking
  /\ section = "bulk" /\ Lacking(vs.jsonInput) # {} =>
       LET i == Min(Lacking(vs.jsonInput)) IN
       /\ vs.validationError.gift = i
       /\ \E k \in 1..Len(RequiredOfRecipient) :
            /\ RequiredOfRecipient[k] \notin vs.jsonInput.gifts[i]
            /\ vs.validationError.text = NamedBy(RequiredOfRecipient[k])

(* C17 amended: for an input in which a gift lacks a required recipient
   field no request is sent and an error is shown; it is the error of the
   first check that fails, the gifts taken in order and the checks of a gift
   in the order recipient, full name, email, address, line 1, city, state,
   ZIP, gift, type, message. So it names the 1-based position of the first
   gift that lacks a recipient field and the first field it lacks, unless an
   earlier gift lacks its gift object, type or message (then that gift and
   that item are named) or the gift has no recipient object at all (then
   "recipient information" is named) *)
Thm_C17_FirstFailingCheck ==
  /\ NoneSentLacking
  /\ section = "bulk" /\ Lacking(vs.jsonInput) # {} =>
       LET gifts == vs.jsonInput.gifts
           i == Min(Lacking(vs.jsonInput))
           earlier == { j \in 1..(i - 1) :
                          {"gift", "type", "message"} \ gifts[j] # {} }
           first == Min({ k \in 1..Len(RequiredOfRecipient) :
                            RequiredOfRecipient[k] \notin gifts[i] })
       IN /\ vs.validationError # NoValidationError
          /\ earlier = {} =>
               /\ vs.validationError.gift = i
               /\ vs.validationError.text =
                    IF "recipient" \notin gifts[i]
                    THEN "Missing recipient information"
                    ELSE NamedBy(RequiredOfRecipient[first])
          /\ earlier # {} =>
               /\ vs.validationError.gift = Min(earlier)
               /\ vs.validationError.text \in
                    {"Missing gift information", "Missing gift type",
                     "Missing gift message"}
Wit_C17_SecondGiftLacksEmail ==
  /\ section = "bulk"
  /\ vs.jsonInput =
       [kind |-> "object", gifts |-> <<CompleteGift, Without("email")>>]
  /\ vs.validationError = [gift |-> 2, text |-> "Missing recipient email"]
  /\ pending = {}

(* the fields the Required Fields panel of the bulk view lists *)
DocumentedAsRequired ==
  {"fullName", "email", "line1", "city", "state", "zip", "country",
   "type", "templateId", "message"}

(* C18 as stated: a bulk submission in which a gift lacks a field the view
   documents as required is blocked before any request is sent *)
Cex_C18_DocumentedFieldsEnforced ==
  \A r \in step.sent :
    r.op = "bulkInitiateGifts" =>
      \A i \in 1..Len(r.data.gifts) :
        DocumentedAsRequired \subseteq r.data.gifts[i]

(* the last step was a tick of an interval timer *)
Ticked == step.act = "tick" /\ "answered" \notin DOMAIN step

(* C19 as stated, while the status view is shown: at most one interval timer
   is active; none is active while auto-refresh is off, so that no tick makes
   a health-check call then; and a tick makes exactly one health-check call *)
Cex_C19_SingleTimerWhileOn ==
  section = "api" =>
    /\ Cardinality(timers.active) <= 1
    /\ ~vs.autoRefresh => timers.active = {}
    /\ Ticked =>
         /\ vs.autoRefresh
         /\ \E r \in step.sent : step.sent = {r} /\ r.op = "healthCheck"

(* C20 as stated: once the status view is disposed its polling timer is
   cancelled, so that no tick makes a health-check call afterwards: every
   active timer belongs to the view that is shown *)
Cex_C20_DisposalCancelsTimer ==
  /\ \A t \in timers.active : t.mounted
  /\ Ticked /\ step.sent # {} => section = "api"

(* C21 as stated, for the gift-management view: the status selector of a
   gift is disabled for as long as an update of that gift is outstanding,
   whatever updates of other gifts start or finish meanwhile *)
Cex_C21_SelectorDisabledWhileOutstanding ==
  section = "management" =>
    \A r \in pending :
      r.op = "updateGiftStatus" => vs.isUpdating = r.giftId

(* C22 as stated: when storage is unavailable, a read of the API key or of
   the cached profile returns null, a write or a removal of either changes
   nothing, and no call raises an error to its caller *)
Cex_C22_UnavailableIsSilent ==
  ~storageAvailable /\ call.pc = "store" =>
    /\ ~call.threw
    /\ call.result = Null /\ call.key = NoItem
    /\ <<lsKey, lsUser>> = call.before

(* C23: when the request of a gift-creation form that passed validation is
   answered with success, every field of the form has the value the form
   was mounted with; when it fails, every field has the value that was
   entered and submitted *)
Thm_C23_ResetOnSuccessOnly ==
  "answered" \in DOMAIN step /\ step.answered.op = "initiateGift" =>
    /\ validateForm(step.answered.data) = {}
    /\ step.ok => vs.formData = InitialFormData
    /\ ~step.ok => vs.formData = step.answered.data
    /\ ~vs.isLoading
Wit_C23_EnteredThenReset ==
  /\ "answered" \in DOMAIN step /\ step.answered.op = "initiateGift"
  /\ step.ok
  /\ step.answered.data.country = "Italy"
  /\ step.answered.data.type = "birthday_card"
  /\ vs.formData = InitialFormData

(* C28: a successful status update of gift g to status s changes, in the
   list of the gift-management view, only the record whose id is g: its
   status becomes s, one of the six statuses, and its timestamp is the
   time of the update; its verified flag and every other field, every
   other gift, and the length and the order of the list stay as they were *)
Thm_C28_UpdateTouchesOneRecord ==
  [][ ( /\ "answered" \in DOMAIN step'
        /\ step'.answered.op = "updateGiftStatus" /\ step'.ok ) =>
      LET r == step'.answered
      IN /\ Len(vs'.gifts) = Len(vs.gifts)
         /\ r.status \in {"pending", "verified", "cancelled", "dispatched",
                          "delivered", "failed"}
         /\ \A i \in 1..Len(vs.gifts) :
              IF vs.gifts[i].gift_id = r.giftId
              THEN /\ vs'.gifts[i].status = r.status
                   /\ vs'.gifts[i].updated_at >= vs.gifts[i].updated_at
                   /\ vs'.gifts[i].updated_at = 3
                   /\ vs'.gifts[i].verified = vs.gifts[i].verified
                   /\ [vs'.gifts[i] EXCEPT
                         !.status = vs.gifts[i].status,
                         !.updated_at = vs.gifts[i].updated_at] = vs.gifts[i]
              ELSE vs'.gifts[i] = vs.gifts[i] ]_vars
Wit_C28_SecondGiftDispatched ==
  /\ "answered" \in DOMAIN step
  /\ step.answered.op = "updateGiftStatus" /\ step.ok
  /\ step.answered.giftId = "g2" /\ step.answered.status = "dispatched"
  /\ Len(vs.gifts) = 2
  /\ vs.gifts[1].gift_id = "g1" /\ vs.gifts[1].status = "pending"
  /\ vs.gifts[1].updated_at = 1
  /\ vs.gifts[2].gift_id = "g2" /\ vs.gifts[2].status = "dispatched"
  /\ vs.gifts[2].updated_at = 3 /\ vs.gifts[2].verified

(* C29 as stated: after a bulk request that was answered successfully, the
   number of gifts reported as successfully initiated is the successful
   count of the response, whatever the response says about failures, and a
   failure notice is shown exactly when the failed count is above zero *)
Cex_C29_ReportsSuccessfulCount ==
  ( /\ "answered" \in DOMAIN step
    /\ step.answered.op = "bulkInitiateGifts" /\ step.ok ) =>
    /\ \E t \in step.toasts : t.kind = "success"
    /\ \A t \in step.toasts :
         t.kind = "success" => t.count = vs.lastResult.successfulGifts
    /\ (\E t \in step.toasts : t.kind = "error")
         <=> vs.lastResult.failedGifts > 0

(* C26: in every state where the session is Authenticated the key in the
   store is the key in memory and the cached profile in the store, as it
   is read back, is the profile in memory; and a step that starts in an
   Authenticated session and changes the key or the cached profile of the
   store is a logout *)
Thm_C26_StoreMirrorsSession ==
  /\ [](SessionState = "Authenticated" =>
          /\ storageAvailable
          /\ lsKey = apiKey /\ lsKey \in Keys
          /\ StorageGet(lsUser) = userInfo /\ userInfo \in Profiles)
  /\ [][ (SessionState = "Authenticated" /\ <<lsKey, lsUser>>' # <<lsKey, lsUser>>)
           => /\ LoggedOutToast \in toasts'
              /\ SessionState' = "Unauthenticated"
              /\ lsKey' = NoItem /\ lsUser' = NoJson ]_vars
Wit_C26_SectionAnswered401 ==
  /\ SessionState = "Authenticated"
  /\ lastResp.origin = "section" /\ lastResp.resp.status = 401
  /\ lastResp.hdr = apiKey
  /\ storedApiKey # apiKey
  /\ lsKey = apiKey /\ StorageGet(lsUser) = userInfo

(* C27 as stated: in every state where initialization has finished, the
   session is Unauthenticated and no login attempt is in flight, the store
   holds neither a key nor a cached profile *)
Cex_C27_UnauthenticatedStoreEmpty ==
  (initPc = "done" /\ SessionState = "Unauthenticated" /\ loginPc # "login")
    => lsKey = NoItem /\ lsUser = NoJson

(* C24: for the gift list of the statistics view and every status filter,
   the filter yields the gifts of the list that have that status, whenever
   it is applied; applied to its own result it returns that result; and
   the list the view shows holds the gifts that the filters in force yield
   from the list, and is left as it is by the status filter in force *)
Thm_C24_FilterIdempotent ==
  section = "statistics" =>
    /\ \A s \in {"", "pending", "verified", "cancelled", "dispatched",
                 "delivered", "failed"} :
         LET once == FilterGifts(vs.gifts, "", s)
         IN /\ FilterGifts(once, "", s) = once
            /\ {once[i] : i \in 1..Len(once)} =
                 {vs.gifts[i] : i \in {j \in 1..Len(vs.gifts) :
                                          s = "" \/ vs.gifts[j].status = s}}
    /\ {vs.filteredGifts[i] : i \in 1..Len(vs.filteredGifts)} =
         LET now == FilterGifts(vs.gifts, vs.campaignFilter, vs.statusFilter)
         IN {now[i] : i \in 1..Len(now)}
    /\ FilterGifts(vs.filteredGifts, "", vs.statusFilter) = vs.filteredGifts
Wit_C24_OneOfTwoVerified ==
  /\ section = "statistics" /\ step.act = "setFilter"
  /\ vs.statusFilter = "verified" /\ vs.campaignFilter = ""
  /\ Len(vs.gifts) = 2 /\ Len(vs.filteredGifts) = 1
  /\ vs.filteredGifts[1].status = "verified"

(* C25: for the list of the statistics view and for the list it shows,
   calculateStatistics returns a total equal to the length of the list,
   verified and unverified counts that add up to the total, and six
   per-status counts that add up to the total when every status is one of
   the six; for the empty list every count is zero; the statistics shown
   are those of the list shown, so the no-data display, shown when the
   total is zero, is shown for an empty list; and a load that returned no
   gifts raises no notification *)
Thm_C25_Totals ==
  section = "statistics" =>
    /\ \A l \in {vs.gifts, vs.filteredGifts, <<>>} :
         LET st == calculateStatistics(l)
         IN /\ st.total = Len(l)
            /\ st.verifiedCount + st.unverifiedCount = st.total
            /\ st.verifiedCount >= 0 /\ st.unverifiedCount >= 0
            /\ (\A i \in 1..Len(l) :
                  l[i].status \in {"pending", "verified", "cancelled",
                                   "dispatched", "delivered", "failed"})
                 => st.pending + st.verified + st.cancelled + st.dispatched
                      + st.delivered + st.failed = st.total
            /\ st.cancelled =
                 Cardinality({i \in 1..Len(l) : l[i].status = "cancelled"})
            /\ l = <<>> =>
                 /\ st.total = 0 /\ st.pending = 0 /\ st.verified = 0
                 /\ st.cancelled = 0 /\ st.dispatched = 0
                 /\ st.delivered = 0 /\ st.failed = 0
                 /\ st.verifiedCount = 0 /\ st.unverifiedCount = 0
    /\ vs.stats = calculateStatistics(vs.filteredGifts)
    /\ vs.filteredGifts = <<>> <=> vs.stats.total = 0
    /\ ( /\ "answered" \in DOMAIN step /\ step.ok
         /\ vs.gifts = <<>> ) => step.toasts = {}
Wit_C25_FilteredToNothing ==
  /\ section = "statistics" /\ step.act = "setFilter" /\ ~vs.isLoading
  /\ Len(vs.gifts) = 2 /\ vs.gifts[1].status = "cancelled"
  /\ vs.statusFilter = "verified"
  /\ vs.filteredGifts = <<>> /\ vs.stats.total = 0

(* C30 as stated, for the statistics view: a change of a filter sends no
   request and leaves the fetched gift list as it is, content and order,
   and the list shown afterwards is the gifts of the fetched list that
   match every filter in force, in the order of the fetched list *)
Cex_C30_FiltersLeaveFetchedList ==
  [][ (section = "statistics" /\ step'.act = "setFilter") =>
        /\ step'.sent = {} /\ pending' = pending
        /\ vs'.gifts = vs.gifts
        /\ vs'.filteredGifts =
             FilterGifts(vs'.gifts, vs'.campaignFilter, vs'.statusFilter) ]_vars
====
